---------------------------- MODULE Spec2Model ----------------------------
(***************************************************************************)
(* FusionAiAutoCoder: the request cache of the cloud dispatch path         *)
(* (src/src/integration/azure_foundry.py, class RequestCache), the         *)
(* workflow orchestrator (src/src/config/config_multi_agents.py, class     *)
(* AgentOrchestrator), the entry points of src/src/main.py and the         *)
(* workflow status store of src/src/api.py.                                *)
(*                                                                         *)
(* The specifications of the module:                                       *)
(*   Spec            one RequestCache object per process lifetime, its     *)
(*                   persistence file, and the wall clock;                 *)
(*   SpecWorkflow    AgentOrchestrator.create_workflow;                    *)
(*   SpecConfidence  the two confidence scorers on their own;              *)
(*   SpecMain        hybrid_workflow and batch_process;                    *)
(*   SpecApi         the status store, the worker task and the endpoints;  *)
(*   SpecPersist     Spec with a persistence file that may be damaged;     *)
(*   SpecThreads     two threads calling one RequestCache, statement by    *)
(*                   statement;                                            *)
(*   SpecClient      AzureAIFoundry.process_code_generation and its cache; *)
(*   SpecExtract     parse_code_blocks and _extract_code_from_message;     *)
(*   SpecPrompt      the opening prompts and is_termination_msg.           *)
(***************************************************************************)
EXTENDS Integers, Sequences, FiniteSets, TLC

VARIABLES
    \* ---- RequestCache fields (azure_foundry.py:37-50)
    cache,          \* self.cache: key -> [response, expires_at]
    access_order,   \* self.access_order: keys, least recently used first
    stats,          \* self.stats: the five counters
    max_size,       \* self.max_size
    ttl,            \* self.ttl
    persist_path,   \* self.persist_path
    \* ---- environment of the cache
    now,            \* time.time()
    disk,           \* content of the file at DirPath
    ret,            \* the last call and what it returned or raised
    \* ---- history of the current cache object (not program state)
    nops,           \* steps taken so far
    lastSet,        \* key -> what the latest Set stored, while the entry lives
    used,           \* keys held, by last use (Get hit or Set), oldest first
    \* ---- AgentOrchestrator (config_multi_agents.py)
    agents,         \* self.agents is non-empty
    wf,             \* the last create_workflow call and its outcome
    \* ---- the confidence scorers, applied on their own
    score,          \* the last scoring: its inputs and the value it gave
    \* ---- main.py
    hy,             \* the last hybrid_workflow call and what it returned
    batch,          \* the last batch_process call: its tasks and results
    \* ---- api.py
    store,          \* Redis: workflow id -> the hash at workflow:<id>
    resp,           \* the last call on the API or the worker and its response
    task,           \* the Celery tasks: what each worker process is running
    \* ---- callers of one RequestCache on threads
    th,             \* thread -> the call it is in, its position and locals
    \* ---- AzureAIFoundry (azure_foundry.py:205-395)
    client,         \* the client object: use_mock, is_configured, cache_enabled
    heap,           \* response dict object -> the keys the dict holds now
    cloud_call,     \* the last process_code_generation call and its course
    fetched,        \* history: key -> time of the backend's last 200 for it
    \* ---- the code block extractors, applied on their own
    ex,             \* the last extraction: its text and what it returned
    \* ---- the opening message of a group chat
    opening         \* the last prompt built and what the predicate says of it

cvars == <<cache, access_order, stats, max_size, ttl, persist_path,
           now, disk, ret, nops, lastSet, used>>
wvars == <<agents, wf>>
avars == <<score, hy, batch, store, resp>>
tvars == <<task>>
xvars == <<th, client, heap, cloud_call, fetched, ex, opening>>
vars  == <<cache, access_order, stats, max_size, ttl, persist_path,
           now, disk, ret, nops, lastSet, used, agents, wf, score, hy, batch,
           store, resp, task, th, client, heap,
           cloud_call, fetched, ex, opening>>

-----------------------------------------------------------------------------
(* Bounds of the model *)

\* Steps of one behaviour: calls on the cache, restarts and clock ticks
MaxOps == 5

\* Messages in the chat history a group chat hands back
MaxHistory == 2

\* Error entries of a result that is scored
MaxErrors == 10

\* Distinct agents that contributed to a result that is scored
MaxContributors == 4

\* Tasks in one batch
MaxTasks == 3

\* Parts (stretches of plain text, fenced blocks) of a text that is extracted
MaxParts == 2

-----------------------------------------------------------------------------
(* Sequence helpers: Python list operations *)

\* x in lst
InSeq(x, s) == \E i \in 1..Len(s) : s[i] = x

\* lst.remove(x) for x in lst: drops the first occurrence
ListRemove(s, x) ==
    LET i == CHOOSE j \in 1..Len(s) : s[j] = x /\ \A k \in 1..(j-1) : s[k] # x
    IN  [j \in 1..(Len(s)-1) |-> IF j < i THEN s[j] ELSE s[j+1]]

\* the elements of s that satisfy keep, in order
RECURSIVE SeqRestrict(_, _)
SeqRestrict(s, keep) ==
    IF s = <<>> THEN <<>>
    ELSE IF Head(s) \in keep THEN <<Head(s)>> \o SeqRestrict(Tail(s), keep)
         ELSE SeqRestrict(Tail(s), keep)

\* A set as a sequence (the order of a dict's keys)
RECURSIVE SetToSeq(_)
SetToSeq(S) ==
    IF S = {} THEN <<>>
    ELSE LET x == CHOOSE y \in S : TRUE IN <<x>> \o SetToSeq(S \ {x})

\* dict without one key
DictDel(d, k) == [x \in (DOMAIN d) \ {k} |-> d[x]]

\* dict with d[k] = v
DictPut(d, k, v) == [x \in (DOMAIN d) \cup {k} |-> IF x = k THEN v ELSE d[x]]

EmptyDict == [x \in {} |-> 0]

-----------------------------------------------------------------------------
(* Cache keys: RequestCache._generate_key *)

\* The two endpoints AzureAIFoundry passes to the cache.
Endpoints == {"/v1/code/generate", "/v1/code/optimize"}

\* A payload is a dict, written as its items in insertion order; an item is
\* <<field, value>> and a field is its rank in the sorted field names
\* (1 = "language", 2 = "prompt").
PayloadA  == << <<2, "a">>, <<1, "python">> >>
PayloadA2 == << <<1, "python">>, <<2, "a">> >>   \* the same items, other order
PayloadB  == << <<2, "b">>, <<1, "python">> >>
Payloads == {PayloadA, PayloadA2, PayloadB}

\* json.dumps(payload, sort_keys=True): the items by ascending field
RECURSIVE SortItems(_)
SortItems(p) ==
    IF p = <<>> THEN <<>>
    ELSE LET i == CHOOSE j \in 1..Len(p) : \A k \in 1..Len(p) : p[j][1] <= p[k][1]
             rest == [j \in 1..(Len(p)-1) |-> IF j < i THEN p[j] ELSE p[j+1]]
         IN  <<p[i]>> \o SortItems(rest)

json_dumps(payload) == SortItems(payload)

\* The requests made of the cache: (endpoint, payload) pairs
Requests == {<<"/v1/code/generate", PayloadA>>, <<"/v1/code/generate", PayloadA2>>,
             <<"/v1/code/generate", PayloadB>>, <<"/v1/code/optimize", PayloadA>>}

\* f"{endpoint}:{payload_str}"
KeyMaterial(endpoint, payload) == <<endpoint, json_dumps(payload)>>

\* The distinct key materials, in a fixed order
Materials == SetToSeq({KeyMaterial(q[1], q[2]) : q \in Requests})

\* hashlib.md5(...).hexdigest(): a digest per key material, distinct materials
\* having distinct digests (the material's place in Materials)
md5(material) == CHOOSE i \in 1..Len(Materials) : Materials[i] = material

_generate_key(endpoint, payload) == md5(KeyMaterial(endpoint, payload))

Keys == {_generate_key(q[1], q[2]) : q \in Requests}

\* Responses of the backend (opaque dicts)
Responses == {"r1", "r2"}

None == "None"

-----------------------------------------------------------------------------
(* RequestCache *)

ZeroStats == [hits |-> 0, misses |-> 0, evictions |-> 0,
              expirations |-> 0, insertions |-> 0]

Counters == {"hits", "misses", "evictions", "expirations", "insertions"}

\* self.stats[name] += 1
Incr(s, name) == [s EXCEPT ![name] = @ + 1]

\* persist_path values: none, a bare file name, a file in a directory
NoPath == "None"
BarePath == "cache.pkl"
DirPath == "cache/requests.pkl"
PersistPaths == {NoPath, DirPath}

\* No file at DirPath (os.path.exists is False)
NoFile == [exists |-> FALSE]

TTLs == {1}

\* Configured max_size values
MaxSizes == {0, 1, 2}

\* The object as a record: what the methods read and write
Self == [cache |-> cache, access_order |-> access_order, stats |-> stats,
         max_size |-> max_size, ttl |-> ttl, persist_path |-> persist_path]

\* A comparison of the clock with an entry's expiry that is off by one
Expired_early(entry, t) == t >= entry.expires_at

Expired_late(entry, t) == t > entry.expires_at + 1

\* current_time > entry["expires_at"] (lines 79 and 186)
Expired(entry, t) == t > entry.expires_at

\* An expired entry dropped without the miss being counted
GetExpired_nomiss(self, key) ==
    [self |-> [self EXCEPT !.cache = DictDel(@, key),
                           !.access_order = ListRemove(@, key),
                           !.stats = Incr(@, "expirations")],
     result |-> None]

\* RequestCache.get, lines 80-85: the entry has expired
GetExpired(self, key) ==
    IF ~InSeq(key, self.access_order)
    THEN [self |-> [self EXCEPT !.cache = DictDel(@, key)], result |-> "ValueError"]
    ELSE [self |-> [self EXCEPT !.cache = DictDel(@, key),
                                !.access_order = ListRemove(@, key),
                                !.stats = Incr(Incr(@, "expirations"), "misses")],
          result |-> None]

\* RequestCache.get, lines 87-93: a hit
GetHit(self, key) ==
    IF ~InSeq(key, self.access_order)
    THEN [self |-> self, result |-> "ValueError"]
    ELSE [self |-> [self EXCEPT !.access_order = Append(ListRemove(@, key), key),
                                !.stats = Incr(@, "hits")],
          result |-> self.cache[key].response]

\* RequestCache.get: the object after the call and the value returned
RequestCache_get(self, key, t) ==
    IF key \notin DOMAIN self.cache
    THEN [self |-> [self EXCEPT !.stats = Incr(@, "misses")], result |-> None]
    ELSE IF Expired(self.cache[key], t) THEN GetExpired(self, key)
         ELSE GetHit(self, key)

\* The eviction with pop() for pop(0): the most recently used key goes
Evict_mru(self) ==
    IF self.access_order = <<>>
    THEN [self |-> self, raised |-> "IndexError"]
    ELSE LET mru_key == self.access_order[Len(self.access_order)] IN
         [self |-> [self EXCEPT !.access_order = SubSeq(@, 1, Len(@) - 1),
                                !.cache = DictDel(@, mru_key),
                                !.stats = Incr(@, "evictions")],
          raised |-> None]

\* The eviction step of RequestCache.set (lines 101-105)
Evict(self) ==
    IF self.access_order = <<>>
    THEN [self |-> self, raised |-> "IndexError"]
    ELSE LET lru_key == Head(self.access_order) IN
         IF lru_key \notin DOMAIN self.cache
         THEN [self |-> [self EXCEPT !.access_order = Tail(@)],
               raised |-> "KeyError"]
         ELSE [self |-> [self EXCEPT !.access_order = Tail(@),
                                     !.cache = DictDel(@, lru_key),
                                     !.stats = Incr(@, "evictions")],
               raised |-> None]

\* The test of line 101 without its second half: a full cache evicts for a
\* key it already holds
MustEvict_anykey(self, key) == Cardinality(DOMAIN self.cache) >= self.max_size

\* The cache is full for a new key (line 101)
MustEvict(self, key) ==
    Cardinality(DOMAIN self.cache) >= self.max_size /\ key \notin DOMAIN self.cache

\* The store with the other counters started afresh on every insertion
Store_resetstats(self, key, response, expires_at) ==
    [self EXCEPT
        !.cache = DictPut(@, key, [response |-> response, expires_at |-> expires_at]),
        !.stats = [ZeroStats EXCEPT !.insertions = self.stats.insertions + 1],
        !.access_order = Append(IF InSeq(key, @) THEN ListRemove(@, key) ELSE @, key)]

\* The store without lines 116-117: the key is appended though the list may
\* hold it already
Store_appendonly(self, key, response, expires_at) ==
    [self EXCEPT
        !.cache = DictPut(@, key, [response |-> response, expires_at |-> expires_at]),
        !.stats = Incr(@, "insertions"),
        !.access_order = Append(@, key)]

\* Lines 107-118: store the entry, count it, move the key to the end
Store(self, key, response, expires_at) ==
    [self EXCEPT
        !.cache = DictPut(@, key, [response |-> response, expires_at |-> expires_at]),
        !.stats = Incr(@, "insertions"),
        !.access_order = Append(IF InSeq(key, @) THEN ListRemove(@, key) ELSE @, key)]

\* RequestCache.set up to the save: the object after the call, and the
\* exception if one was raised
RequestCache_set(self, key, response, t) ==
    LET expires_at == t + self.ttl
        ev == IF MustEvict(self, key) THEN Evict(self)
              ELSE [self |-> self, raised |-> None]
    IN  IF ev.raised # None
        THEN [self |-> ev.self, result |-> ev.raised]
        ELSE [self |-> Store(ev.self, key, response, expires_at), result |-> None]

\* os.path.dirname(persist_path) is non-empty
HasDir(path) == path = DirPath

\* RequestCache._save_to_disk: the file afterwards.  os.makedirs("") raises
\* for a bare file name; the exception is caught and nothing is written.
_save_to_disk(self, file, t) ==
    IF self.persist_path = NoPath THEN file
    ELSE IF ~HasDir(self.persist_path) THEN file
    ELSE [exists |-> TRUE, cache |-> self.cache,
          access_order |-> self.access_order,
          stats |-> self.stats, timestamp |-> t]

\* The file RequestCache reads at persist_path: only DirPath is ever written
FileAt(path, file) == IF path = DirPath THEN file ELSE NoFile

\* The removal of the expired keys that leaves the expirations counter alone
RECURSIVE RemoveExpired_nocount(_, _)
RemoveExpired_nocount(self, expired_keys) ==
    IF expired_keys = <<>> THEN [self |-> self, raised |-> None]
    ELSE LET key == Head(expired_keys) IN
         RemoveExpired_nocount([self EXCEPT
                                   !.cache = DictDel(@, key),
                                   !.access_order = ListRemove(@, key)],
                               Tail(expired_keys))

\* Lines 190-193 over the expired keys, in the dict's order
RECURSIVE RemoveExpired(_, _)
RemoveExpired(self, expired_keys) ==
    IF expired_keys = <<>> THEN [self |-> self, raised |-> None]
    ELSE LET key == Head(expired_keys) IN
         IF ~InSeq(key, self.access_order)
         THEN [self |-> [self EXCEPT !.cache = DictDel(@, key)],
               raised |-> "ValueError"]
         ELSE RemoveExpired([self EXCEPT
                                !.cache = DictDel(@, key),
                                !.access_order = ListRemove(@, key),
                                !.stats = Incr(@, "expirations")],
                            Tail(expired_keys))

\* The load that restores the entries and the recency list but not the counters
_load_from_disk_freshstats(self, file, t) ==
    IF self.persist_path = NoPath \/ ~FileAt(self.persist_path, file).exists
    THEN self
    ELSE LET loaded == [self EXCEPT !.cache = file.cache,
                                    !.access_order = file.access_order]
             expired_keys == SetToSeq({k \in DOMAIN loaded.cache :
                                          Expired(loaded.cache[k], t)})
         IN  RemoveExpired(loaded, expired_keys).self

\* A file that is no pickle: pickle.load raises (line 174)
GarbageFile == [exists |-> TRUE, garbage |-> TRUE]

\* pickle.load(f) returns an object
Unpickles(file) == "garbage" \notin DOMAIN file

\* loaded_cache["cache"], ["access_order"] and ["stats"] are there (lines
\* 177-179)
HasFields(file) == {"cache", "access_order", "stats"} \subseteq DOMAIN file

\* RequestCache._load_from_disk.  An exception of lines 173-179 is caught at
\* line 198 before self.stats is assigned.
_load_from_disk(self, file, t) ==
    IF self.persist_path = NoPath \/ ~FileAt(self.persist_path, file).exists
    THEN self
    ELSE IF ~Unpickles(file) \/ ~HasFields(file)
    THEN [self EXCEPT !.cache = EmptyDict, !.access_order = <<>>]
    ELSE LET loaded == [self EXCEPT !.cache = file.cache,
                                    !.access_order = file.access_order,
                                    !.stats = file.stats]
             expired_keys == SetToSeq({k \in DOMAIN loaded.cache :
                                          Expired(loaded.cache[k], t)})
             done == RemoveExpired(loaded, expired_keys)
         IN  IF done.raised # None
             THEN [done.self EXCEPT !.cache = EmptyDict, !.access_order = <<>>]
             ELSE done.self

\* RequestCache.__init__
RequestCache_init(ms, tl, path, file, t) ==
    LET fresh == [cache |-> EmptyDict, access_order |-> <<>>, stats |-> ZeroStats,
                  max_size |-> ms, ttl |-> tl, persist_path |-> path]
    IN  IF path # NoPath THEN _load_from_disk(fresh, file, t) ELSE fresh

-----------------------------------------------------------------------------
(* RequestCache.get and RequestCache.set statement by statement, as a thread *)
(* runs them: the class takes no lock, so another thread can run between any *)
(* two statements.  A position is the line the thread is about to execute.   *)

\* The threads that hold the client of get_azure_foundry_client()
Threads == {"t1", "t2"}

\* The local variable entry before line 75 has run
NoEntry == [response |-> None, expires_at |-> 0]

\* A thread outside any call on the cache
Idle == [pc |-> "idle", op |-> None, key |-> 0, response |-> None,
         entry |-> NoEntry, lru_key |-> 0, result |-> None, raised |-> None]

\* The call ends with an exception
Raise(l, e) == [l EXCEPT !.pc = "done", !.raised = e]

\* The call returns
ReturnValue(l, v) == [l EXCEPT !.pc = "done", !.result = v]

\* One statement of RequestCache.get (lines 70-93) by a thread whose locals
\* are l: the object and the locals afterwards
get_step(self, l, t) ==
    CASE l.pc = "71" ->
             IF l.key \notin DOMAIN self.cache
             THEN [self |-> [self EXCEPT !.stats = Incr(@, "misses")],
                   l |-> ReturnValue(l, None)]
             ELSE [self |-> self, l |-> [l EXCEPT !.pc = "75"]]
      [] l.pc = "75" ->
             IF l.key \notin DOMAIN self.cache
             THEN [self |-> self, l |-> Raise(l, "KeyError")]
             ELSE [self |-> self,
                   l |-> [l EXCEPT !.entry = self.cache[l.key],
                                   !.pc = IF Expired(self.cache[l.key], t)
                                          THEN "81" ELSE "88"]]
      [] l.pc = "81" ->
             IF l.key \notin DOMAIN self.cache
             THEN [self |-> self, l |-> Raise(l, "KeyError")]
             ELSE [self |-> [self EXCEPT !.cache = DictDel(@, l.key)],
                   l |-> [l EXCEPT !.pc = "82"]]
      [] l.pc = "82" ->
             IF ~InSeq(l.key, self.access_order)
             THEN [self |-> self, l |-> Raise(l, "ValueError")]
             ELSE [self |-> [self EXCEPT !.access_order = ListRemove(@, l.key)],
                   l |-> [l EXCEPT !.pc = "83"]]
      [] l.pc = "83" ->
             [self |-> [self EXCEPT
                           !.stats = Incr(Incr(@, "expirations"), "misses")],
              l |-> ReturnValue(l, None)]
      [] l.pc = "88" ->
             IF ~InSeq(l.key, self.access_order)
             THEN [self |-> self, l |-> Raise(l, "ValueError")]
             ELSE [self |-> [self EXCEPT !.access_order = ListRemove(@, l.key)],
                   l |-> [l EXCEPT !.pc = "89"]]
      [] l.pc = "89" ->
             [self |-> [self EXCEPT !.access_order = Append(@, l.key)],
              l |-> [l EXCEPT !.pc = "91"]]
      [] l.pc = "91" ->
             [self |-> [self EXCEPT !.stats = Incr(@, "hits")],
              l |-> ReturnValue(l, l.entry.response)]

\* One statement of RequestCache.set (lines 97-124) by a thread whose locals
\* are l; the shared client has no persist_path (line 235), so line 123 is
\* false
set_step(self, l, t) ==
    CASE l.pc = "98" ->
             [self |-> self,
              l |-> [l EXCEPT !.entry = [response |-> l.response,
                                         expires_at |-> t + self.ttl],
                              !.pc = IF MustEvict(self, l.key)
                                     THEN "102" ELSE "108"]]
      [] l.pc = "102" ->
             IF self.access_order = <<>>
             THEN [self |-> self, l |-> Raise(l, "IndexError")]
             ELSE [self |-> [self EXCEPT !.access_order = Tail(@)],
                   l |-> [l EXCEPT !.lru_key = Head(self.access_order),
                                   !.pc = "103"]]
      [] l.pc = "103" ->
             IF l.lru_key \notin DOMAIN self.cache
             THEN [self |-> self, l |-> Raise(l, "KeyError")]
             ELSE [self |-> [self EXCEPT !.cache = DictDel(@, l.lru_key),
                                         !.stats = Incr(@, "evictions")],
                   l |-> [l EXCEPT !.pc = "108"]]
      [] l.pc = "108" ->
             [self |-> [self EXCEPT !.cache = DictPut(@, l.key, l.entry),
                                    !.stats = Incr(@, "insertions")],
              l |-> [l EXCEPT !.pc = "116"]]
      [] l.pc = "116" ->
             [self |-> self,
              l |-> [l EXCEPT !.pc = IF InSeq(l.key, self.access_order)
                                     THEN "117" ELSE "118"]]
      [] l.pc = "117" ->
             IF ~InSeq(l.key, self.access_order)
             THEN [self |-> self, l |-> Raise(l, "ValueError")]
             ELSE [self |-> [self EXCEPT !.access_order = ListRemove(@, l.key)],
                   l |-> [l EXCEPT !.pc = "118"]]
      [] l.pc = "118" ->
             [self |-> [self EXCEPT !.access_order = Append(@, l.key)],
              l |-> ReturnValue(l, None)]

-----------------------------------------------------------------------------
(* AzureAIFoundry: the client and its calls on the cache *)

\* The dict objects response.json() builds; a cache entry holds a reference
\* to one (line 109), and get hands the reference out (line 93)
ObjIds == Responses \cup {"r3"}

\* What a 200 response of the service holds: a result, or an empty object
ResponseContents == {{"code"}, {}}

\* Before AzureAIFoundry() has run
NoClient == [exists |-> FALSE, use_mock |-> TRUE, is_configured |-> FALSE,
             cache_enabled |-> FALSE]

\* AzureAIFoundry.__init__, lines 208-243, from the environment: without
\* credentials the client is a mock (lines 220-223)
AzureAIFoundry_init(use_mock, is_configured, use_cache) ==
    [exists |-> TRUE, use_mock |-> use_mock \/ ~is_configured,
     is_configured |-> is_configured, cache_enabled |-> use_cache]

\* The course of a process_code_generation call: whether request_cache.get
\* was called and what it returned, how authenticate and the backend call
\* went, what the method returned and whether request_cache.set stored it
NoClientCall == [looked_up |-> FALSE, lookup |-> None, auth |-> "none",
                 backend |-> "none", returned |-> None, stored |-> FALSE]

\* if cached_response: (line 297) -- an empty dict is false
Truthy(hp, obj) == obj \in ObjIds /\ hp[obj] # {}

\* The service's answer is cached whatever its status
CacheableOutcome_any(outcome) == outcome \in {"ok", "non200"}

\* response.status_code == 200 (line 324)
CacheableOutcome(outcome) == outcome = "ok"

\* Lines 308-338: the call on the service and what follows it.  obj is the
\* dict response.json() builds, content the keys in it.
BackendCall(self, cl, hp, key, t, outcome, obj, content, c) ==
    IF outcome = "exception"
    THEN [self |-> self, heap |-> hp,
          call |-> [c EXCEPT !.backend = outcome, !.returned = "error"]]
    ELSE IF ~CacheableOutcome(outcome)
    THEN [self |-> self, heap |-> hp,
          call |-> [c EXCEPT !.backend = outcome, !.returned = "error"]]
    ELSE IF ~cl.cache_enabled
    THEN [self |-> self, heap |-> [hp EXCEPT ![obj] = content],
          call |-> [c EXCEPT !.backend = outcome, !.returned = obj]]
    ELSE LET s == RequestCache_set(self, key, obj, t) IN
         IF s.result # None
         THEN [self |-> s.self, heap |-> hp,
               call |-> [c EXCEPT !.backend = outcome, !.returned = "error"]]
         ELSE [self |-> s.self, heap |-> [hp EXCEPT ![obj] = content],
               call |-> [c EXCEPT !.backend = outcome, !.returned = obj,
                                  !.stored = TRUE]]

\* AzureAIFoundry.process_code_generation, lines 282-338 (and
\* process_code_optimization, lines 340-395, which differs in its endpoint
\* and payload): the cache object, the heap and the course of the call
process_code_generation(self, cl, hp, key, t, auth_ok, outcome, obj, content) ==
    LET looked_up == cl.cache_enabled /\ ~cl.use_mock
        g == IF looked_up THEN RequestCache_get(self, key, t)
             ELSE [self |-> self, result |-> None]
        c == [NoClientCall EXCEPT !.looked_up = looked_up, !.lookup = g.result]
    IN  IF Truthy(hp, g.result)
        THEN [self |-> g.self, heap |-> hp,
              call |-> [c EXCEPT !.returned = g.result]]
        ELSE IF ~cl.use_mock /\ ~auth_ok
        THEN [self |-> g.self, heap |-> hp,
              call |-> [c EXCEPT !.auth = "failed", !.returned = "mock"]]
        ELSE IF cl.use_mock
        THEN [self |-> g.self, heap |-> hp,
              call |-> [c EXCEPT !.auth = "ok", !.returned = "mock"]]
        ELSE BackendCall(g.self, cl, hp, key, t, outcome, obj, content,
                         [c EXCEPT !.auth = "ok"])

\* The dicts nothing refers to any more are gone
Collect(hp, entries, held) ==
    [o \in ObjIds |->
        IF o = held \/ \E k \in DOMAIN entries : entries[k].response = o
        THEN hp[o] ELSE {}]

-----------------------------------------------------------------------------
(* AgentOrchestrator *)

\* The task types the specification calls supported
SupportedTaskTypes == {"code_generation", "code_optimization", "code_review",
                       "architecture_design", "deployment"}

\* The task types create_workflow is called with
TaskTypes == SupportedTaskTypes \cup {"full_pipeline", "invalid_task_type"}

\* task_data["complexity"]; "absent" is a task_data without the key
Complexities == {"low", "medium", "high", "critical", "absent"}

\* agent.name of each entry of self.agents (lines 55-133)
AgentName(a) ==
    CASE a = "data_collector" -> "DataCollector"
      [] a = "processor" -> "Processor"
      [] a = "storage_handler" -> "StorageHandler"
      [] a = "code_reviewer" -> "CodeReviewer"
      [] a = "architect" -> "Architect"
      [] a = "user_proxy" -> "User"

\* What the code looks for in a message's content; "fence" is the mark of a
\* fenced code block
Markers == {"fence", "approved", "error", "failed", "exception"}

\* The contents of a message, as the markers found in it
Contents == {{}, {"fence"}, {"approved"}, {"error"}, {"failed"}}

\* The chat histories a group chat of these participants can hand back
Histories(participants) ==
    LET names == {AgentName(participants[i]) : i \in 1..Len(participants)}
        msgs == [name : names, content : Contents]
    IN  UNION {[1..n -> msgs] : n \in 0..MaxHistory}

\* [msg for msg in chat_history if msg.get("name") == name]
MessagesOf(chat_history, name) ==
    SeqRestrict(chat_history, {m \in {chat_history[i] : i \in 1..Len(chat_history)} :
                                 m.name = name})

Last(s) == s[Len(s)]

\* task_data.get('complexity', 'medium')
ComplexityOf(complexity) == IF complexity = "absent" THEN "medium" ELSE complexity

\* The extension made for medium only
GenerationParticipants_mediumonly(complexity) ==
    <<"user_proxy", "processor">>
    \o (IF complexity = "medium" THEN <<"architect", "data_collector">> ELSE <<>>)
    \o (IF complexity = "high" THEN <<"code_reviewer">> ELSE <<>>)

\* _code_generation_workflow, lines 222-229: the participants by complexity
GenerationParticipants(complexity) ==
    <<"user_proxy", "processor">>
    \o (IF complexity \in {"medium", "high"} THEN <<"architect", "data_collector">>
        ELSE <<>>)
    \o (IF complexity = "high" THEN <<"code_reviewer">> ELSE <<>>)

\* The participants of each workflow's group chat (lines 223, 321, 425, 527)
Participants(task_type, complexity) ==
    CASE task_type = "code_generation" -> GenerationParticipants(complexity)
      [] task_type = "code_optimization" -> <<"user_proxy", "processor", "code_reviewer">>
      [] task_type = "deployment" ->
             <<"user_proxy", "storage_handler", "code_reviewer", "processor">>
      [] task_type = "architecture_design" ->
             <<"user_proxy", "architect", "data_collector">>
      [] OTHER -> <<>>

\* A result dict: the keys it has and the values the claims read.  Numbers
\* that the dict does not hold are 0; confidence is in tenths.
NoResult == [keys |-> {}, error |-> None, status |-> None, success |-> FALSE,
             confidence |-> 0, errors |-> 0]

\* _code_generation_workflow, lines 285-290 and 297, in tenths
GenerationConfidence(complexity, approved) ==
    LET confidence == 7 + (IF complexity = "low" THEN 2 ELSE 0)
                        + (IF approved THEN 1 ELSE 0)
    IN  IF confidence < 10 THEN confidence ELSE 10

\* _code_generation_workflow, lines 279-304: the result from the chat history
GenerationResult(chat_history, complexity) ==
    LET processor_messages == MessagesOf(chat_history, "Processor")
        reviewer_messages == IF complexity = "high"
                             THEN MessagesOf(chat_history, "CodeReviewer") ELSE <<>>
        approved == /\ reviewer_messages # <<>>
                    /\ "approved" \in Last(reviewer_messages).content
    IN  IF processor_messages # <<>>
        THEN [NoResult EXCEPT
                 !.keys = {"code", "language", "framework", "design_notes",
                           "confidence", "review_notes"},
                 !.confidence = GenerationConfidence(complexity, approved)]
        ELSE [NoResult EXCEPT !.keys = {"error", "reason"},
                              !.error = "Failed to generate code"]

\* _code_optimization_workflow, lines 366-405
OptimizationResult(chat_history) ==
    IF MessagesOf(chat_history, "Processor") # <<>>
    THEN [NoResult EXCEPT
             !.keys = {"original_code", "optimized_code", "language",
                       "optimization_target", "improvements", "estimated_speedup",
                       "review_notes"}]
    ELSE [NoResult EXCEPT !.keys = {"error", "reason"},
                          !.error = "Failed to optimize code"]

\* _deployment_workflow, lines 472-513.  Line 489 calls re.search, and the
\* module never imports re at its top level: a StorageHandler message with a
\* fenced block raises NameError.
DeploymentResult(chat_history) ==
    LET handler_messages == MessagesOf(chat_history, "StorageHandler")
        failing == {i \in 1..Len(handler_messages) :
                       \/ "error" \in handler_messages[i].content
                       \/ "failed" \in handler_messages[i].content}
        deployment_success == failing = {}
        fenced == \E i \in 1..Len(handler_messages) :
                      "fence" \in handler_messages[i].content
    IN  IF fenced THEN [raised |-> "NameError", result |-> NoResult]
        ELSE [raised |-> None,
              result |-> [NoResult EXCEPT
                  !.keys = {"status", "environment", "target_platform",
                            "service_name", "deployment_scripts", "details"}
                           \cup (IF deployment_success THEN {} ELSE {"error"}),
                  !.status = IF deployment_success THEN "deployment_completed"
                             ELSE "deployment_failed",
                  !.error = IF deployment_success THEN None ELSE "handler message"]]

\* The score without the floor under the penalty
_calculate_confidence_score_nofloor(n_errors, n_agents) ==
    LET base_score == (7 - n_errors) + (IF n_agents >= 3 THEN 2 ELSE 0)
    IN  IF base_score < 10 THEN base_score ELSE 10

\* The score with the floor applied after the bonus
_calculate_confidence_score_floorlast(n_errors, n_agents) ==
    LET base_score == (7 - n_errors) + (IF n_agents >= 3 THEN 2 ELSE 0)
        floored == IF base_score > 0 THEN base_score ELSE 0
    IN  IF floored < 10 THEN floored ELSE 10

\* _calculate_confidence_score, lines 615-629, in tenths: n_errors is
\* len(results["errors"]), n_agents is len(agent_contributions)
_calculate_confidence_score(n_errors, n_agents) ==
    LET penalised == IF 7 - n_errors > 0 THEN 7 - n_errors ELSE 0
        base_score == penalised + (IF n_agents >= 3 THEN 2 ELSE 0)
    IN  IF base_score < 10 THEN base_score ELSE 10

\* The results with an empty transcript marked as a failure
_process_workflow_results_emptyfails(chat_history) ==
    [NoResult EXCEPT
        !.keys = {"success", "outputs", "metadata", "errors"},
        !.errors = Cardinality({i \in 1..Len(chat_history) :
                                   "error" \in chat_history[i].content}),
        !.success = /\ chat_history # <<>>
                    /\ \A i \in 1..Len(chat_history) :
                           "error" \notin chat_history[i].content,
        !.confidence = 7]

\* _process_workflow_results, lines 560-613
_process_workflow_results(chat_history) ==
    LET idx == 1..Len(chat_history)
        errors == {i \in idx : \/ "error" \in chat_history[i].content
                               \/ "exception" \in chat_history[i].content}
        agent_contributions == {chat_history[i].name : i \in idx}
    IN  [NoResult EXCEPT
            !.keys = {"success", "outputs", "metadata", "errors"},
            !.errors = Cardinality(errors),
            !.success = errors = {},
            !.confidence = _calculate_confidence_score(Cardinality(errors),
                                                       Cardinality(agent_contributions))]

\* The workflow methods the class defines; create_workflow also names
\* _code_review_workflow and _full_pipeline_workflow (lines 184, 186)
DefinedWorkflows == {"code_generation", "code_optimization", "deployment",
                     "architecture_design"}

\* The names create_workflow dispatches on (lines 175-186)
DispatchedTaskTypes == DefinedWorkflows \cup {"code_review", "full_pipeline"}

\* _handle_agent_failure, lines 631-685: the fallback of an agent, by its key
\* in fallback_strategies.  No line of the repository calls it.
_handle_agent_failure(agent_name) ==
    CASE agent_name = "architect" ->
             [success |-> TRUE, message |-> "Using simplified architecture design"]
      [] agent_name = "processor" ->
             [success |-> TRUE, message |-> "Using basic implementation"]
      [] agent_name = "code_reviewer" ->
             [success |-> TRUE, message |-> "Skipping detailed review"]
      [] agent_name = "data_collector" ->
             [success |-> TRUE, message |-> "Using cached/default examples"]
      [] OTHER -> [success |-> FALSE, message |-> "No fallback strategy for agent"]

\* The agents of a group chat whose call on the model can raise: every
\* participant but the user proxy, which has no model (llm_config False)
CallingAgents(participants) ==
    {participants[i] : i \in 1..Len(participants)} \ {"user_proxy"}

\* create_workflow, lines 167-189, with the workflow it runs: the outcome of
\* the call for the chat history the group chat hands back, or for the agent
\* whose call raised inside initiate_chat (failed, None when none did).  No
\* workflow has a try around initiate_chat: the exception leaves create_workflow.
create_workflow(task_type, complexity, chat_history, failed) ==
    LET cx == ComplexityOf(complexity)
        call == [pc |-> "returned", task_type |-> task_type, complexity |-> cx,
                 participants |-> Participants(task_type, cx),
                 chat_started |-> TRUE, chat_history |-> chat_history,
                 failed_agent |-> failed,
                 error |-> None, result |-> NoResult]
        rejected == [call EXCEPT !.pc = "raised", !.chat_started = FALSE,
                                 !.participants = <<>>, !.chat_history = <<>>]
    IN  IF task_type \notin DispatchedTaskTypes
        THEN [rejected EXCEPT !.error = "ValueError: Unknown task type"]
        ELSE IF task_type \notin DefinedWorkflows
        THEN [rejected EXCEPT !.error = "AttributeError"]
        ELSE IF failed # None
        THEN [call EXCEPT !.pc = "raised", !.error = "AgentError",
                          !.chat_history = <<>>]
        ELSE IF task_type = "code_generation"
        THEN [call EXCEPT !.result = GenerationResult(chat_history, cx)]
        ELSE IF task_type = "code_optimization"
        THEN [call EXCEPT !.result = OptimizationResult(chat_history)]
        ELSE IF task_type = "deployment"
        THEN LET d == DeploymentResult(chat_history)
             IN  IF d.raised # None
                 THEN [call EXCEPT !.pc = "raised", !.error = d.raised]
                 ELSE [call EXCEPT !.result = d.result]
        ELSE [call EXCEPT !.result = _process_workflow_results(chat_history)]

-----------------------------------------------------------------------------
(* main.py: hybrid_workflow and batch_process *)

\* What a call on the orchestrator or on the cloud client came to: it raised
\* error, or it returned result
NoOutcome == [raised |-> FALSE, error |-> None, result |-> NoResult]

\* The outcome of orchestrator.create_workflow as its caller sees it
LocalOutcome(w) ==
    [raised |-> w.pc = "raised", error |-> w.error, result |-> w.result]

\* Every outcome orchestrator.create_workflow(task_type, task_data) can have
LocalOutcomes(task_type, complexity) ==
    LET participants == Participants(task_type, ComplexityOf(complexity))
    IN  {LocalOutcome(create_workflow(task_type, complexity, h, None)) :
             h \in Histories(participants)}
        \cup {LocalOutcome(create_workflow(task_type, complexity, <<>>, f)) :
                  f \in CallingAgents(participants)}

\* The task types the cloud client has a call for (lines 57, 72, 100, 109)
CloudTaskTypes == {"code_generation", "code_optimization"}

\* The confidence of a cloud result in tenths: 9 from _mock_code_generation
\* (azure_foundry.py:467), 8 for a response of the service, 0 for a result
\* without the key (_mock_code_optimization)
CloudConfidences(task_type) ==
    IF task_type = "code_generation" THEN {8, 9} ELSE {0}

\* What process_code_generation / process_code_optimization can come to: a
\* result of the service or the mock, an error result (azure_foundry.py:334,
\* 338), or an exception of json.dumps on the payload (azure_foundry.py:60)
CloudOutcomes(task_type) ==
    {[NoOutcome EXCEPT
         !.result = [NoResult EXCEPT
             !.keys = IF task_type = "code_generation"
                      THEN {"code", "language", "confidence", "source"}
                      ELSE {"optimized_code", "language", "improvements",
                            "estimated_speedup", "source"},
             !.confidence = c]] : c \in CloudConfidences(task_type)}
    \cup {[NoOutcome EXCEPT
              !.result = [NoResult EXCEPT !.keys = {"error", "fallback"},
                                          !.error = "API call failed"]],
          [NoOutcome EXCEPT !.raised = TRUE, !.error = "TypeError"]}

\* result.get('confidence', 0)
ConfidenceOf(result) ==
    IF "confidence" \in result.keys THEN result.confidence ELSE 0

\* The dict hybrid_workflow returns at line 157: result with 'metadata' put
\* in it (lines 149-154); metadata has no 'success' key
WithMetadata(result, source, alternative) ==
    [keys |-> result.keys \cup {"metadata"}
                  \cup (IF alternative THEN {"alternative"} ELSE {}),
     error |-> result.error, result |-> result, source |-> source,
     metadata_success |-> None]

\* The dict of the outer except with no 'success' in its metadata
ErrorReturn_nosuccess(e) ==
    [keys |-> {"error", "task_type", "metadata"}, error |-> e,
     result |-> NoResult, source |-> "except", metadata_success |-> None]

\* The dict the outer except returns (lines 159-171)
ErrorReturn(e) ==
    [keys |-> {"error", "task_type", "metadata"}, error |-> e,
     result |-> NoResult, source |-> "except", metadata_success |-> "False"]

\* result = orchestrator.create_workflow(task_type, task_data) as the last
\* statement of a strategy: the result with metadata, or the outer except
LocalReturn(local) ==
    IF local.raised THEN ErrorReturn(local.error)
    ELSE WithMetadata(local.result, "local", FALSE)

\* The call record of a hybrid_workflow call
HybridCall(strategy, cloud, locals, returned) ==
    [strategy |-> strategy, cloud_called |-> cloud # NoOutcome, cloud |-> cloud,
     locals |-> locals, ret |-> returned]

\* The cloud-first strategy with the cloud's error result handed to the caller
CloudFirst_noFallback(task_type, cloud, local1, local2) ==
    IF task_type \notin CloudTaskTypes
    THEN HybridCall("cloud_first", NoOutcome, <<local1>>, LocalReturn(local1))
    ELSE IF cloud.raised
    THEN HybridCall("cloud_first", cloud, <<local1>>, LocalReturn(local1))
    ELSE HybridCall("cloud_first", cloud, <<>>,
                    WithMetadata(cloud.result, "cloud", FALSE))

\* hybrid_workflow, lines 53-93: cloud first, then local.  The local call of
\* line 71, 85 or 89 is inside the inner try: when it raises, the handler of
\* lines 90-93 calls create_workflow once more.
CloudFirst(task_type, cloud, local1, local2) ==
    IF task_type \notin CloudTaskTypes
    THEN HybridCall("cloud_first", NoOutcome,
                    IF local1.raised THEN <<local1, local2>> ELSE <<local1>>,
                    LocalReturn(IF local1.raised THEN local2 ELSE local1))
    ELSE IF cloud.raised
    THEN HybridCall("cloud_first", cloud, <<local1>>, LocalReturn(local1))
    ELSE IF "error" \notin cloud.result.keys
    THEN HybridCall("cloud_first", cloud, <<>>,
                    WithMetadata(cloud.result, "cloud", FALSE))
    ELSE HybridCall("cloud_first", cloud,
                    IF local1.raised THEN <<local1, local2>> ELSE <<local1>>,
                    LocalReturn(IF local1.raised THEN local2 ELSE local1))

\* The parallel strategy with >= for > at line 128: a tie goes to the cloud
Parallel_tiecloud(task_type, cloud, local1) ==
    IF local1.raised
    THEN HybridCall("parallel", NoOutcome, <<local1>>, LocalReturn(local1))
    ELSE IF task_type \notin CloudTaskTypes
    THEN HybridCall("parallel", NoOutcome, <<local1>>, LocalReturn(local1))
    ELSE IF cloud.raised
    THEN HybridCall("parallel", cloud, <<local1>>, LocalReturn(local1))
    ELSE IF /\ "error" \notin cloud.result.keys
            /\ ConfidenceOf(cloud.result) >= ConfidenceOf(local1.result)
    THEN HybridCall("parallel", cloud, <<local1>>,
                    WithMetadata(cloud.result, "cloud", TRUE))
    ELSE HybridCall("parallel", cloud, <<local1>>,
                    WithMetadata(local1.result, "local",
                                 "error" \notin cloud.result.keys))

\* hybrid_workflow, lines 94-142: cloud and local, the better one returned.
\* The local call of line 119 comes first; when it raises, the cloud
\* coroutine is never awaited.
Parallel(task_type, cloud, local1) ==
    IF local1.raised
    THEN HybridCall("parallel", NoOutcome, <<local1>>, LocalReturn(local1))
    ELSE IF task_type \notin CloudTaskTypes
    THEN HybridCall("parallel", NoOutcome, <<local1>>, LocalReturn(local1))
    ELSE IF cloud.raised
    THEN HybridCall("parallel", cloud, <<local1>>, LocalReturn(local1))
    ELSE IF /\ "error" \notin cloud.result.keys
            /\ ConfidenceOf(cloud.result) > ConfidenceOf(local1.result)
    THEN HybridCall("parallel", cloud, <<local1>>,
                    WithMetadata(cloud.result, "cloud", TRUE))
    ELSE HybridCall("parallel", cloud, <<local1>>,
                    WithMetadata(local1.result, "local",
                                 "error" \notin cloud.result.keys))

\* The strategy chosen without a look at use_cloud
hybrid_workflow_anyway(task_type, use_cloud, complexity, parallel, cloud, local1, local2) ==
    IF ComplexityOf(complexity) = "high"
    THEN CloudFirst(task_type, cloud, local1, local2)
    ELSE IF parallel
    THEN Parallel(task_type, cloud, local1)
    ELSE HybridCall("local", NoOutcome, <<local1>>, LocalReturn(local1))

\* hybrid_workflow, lines 18-171, for the outcomes of the calls it makes
hybrid_workflow(task_type, use_cloud, complexity, parallel, cloud, local1, local2) ==
    IF use_cloud /\ ComplexityOf(complexity) = "high"
    THEN CloudFirst(task_type, cloud, local1, local2)
    ELSE IF use_cloud /\ parallel
    THEN Parallel(task_type, cloud, local1)
    ELSE HybridCall("local", NoOutcome, <<local1>>, LocalReturn(local1))

\* The entry batch_process appends for a task without a task_type (line 192)
MissingTaskType ==
    [keys |-> {"error"}, error |-> "Missing task_type in batch task",
     result |-> NoResult, source |-> "batch", metadata_success |-> None]

\* not task_type (line 191): the key is absent, or its value is empty
NoTaskType(task_type) == task_type \in {None, ""}

RECURSIVE batch_process_stops(_, _)
\* The loop left at the first task without a task_type
batch_process_stops(tasks, returns) ==
    IF tasks = <<>> THEN <<>>
    ELSE IF NoTaskType(Head(tasks)) THEN <<MissingTaskType>>
    ELSE <<Head(returns)>> \o batch_process_stops(Tail(tasks), Tail(returns))

RECURSIVE batch_process(_, _)
\* batch_process, lines 173-199: returns[i] is what hybrid_workflow returns
\* for tasks[i]
batch_process(tasks, returns) ==
    IF tasks = <<>> THEN <<>>
    ELSE <<IF NoTaskType(Head(tasks)) THEN MissingTaskType ELSE Head(returns)>>
         \o batch_process(Tail(tasks), Tail(returns))

-----------------------------------------------------------------------------
(* api.py: the workflow status store and the calls on it *)

\* The workflow ids of the events and requests
WorkflowIds == {"w1", "w2"}

\* datetime.now(timezone.utc).isoformat(): a time, whichever
Timestamp == "ts"

\* An optional dict is a sequence: <<>> for None, <<d>> for the dict d

\* json.dumps(result) (line 117): the text of the dict
json_dumps_result(result) == <<"json", result>>

\* json.loads(data["result"]) (line 131)
json_loads(text) == text[2]

\* The hash at workflow:<id>; a field that was never set is None, and a
\* result that was never set is the empty text <<>>
NoHash == [exists |-> FALSE, status |-> None, result |-> <<>>, error |-> None,
           startedAt |-> None, completedAt |-> None]

\* set_workflow_status, lines 107-123: hmset writes the fields that are not
\* None and leaves the others of the hash as they are
set_workflow_status(hash, status, result, error, started_at, completed_at) ==
    [exists |-> TRUE,
     status |-> status,
     result |-> IF result # <<>> THEN json_dumps_result(result[1]) ELSE hash.result,
     error |-> IF error # None THEN error ELSE hash.error,
     startedAt |-> IF started_at # None THEN started_at ELSE hash.startedAt,
     completedAt |-> IF completed_at # None THEN completed_at ELSE hash.completedAt]

\* get_workflow_status, lines 125-135, for a hash that exists
get_workflow_status(hash) ==
    [status |-> hash.status,
     result |-> IF hash.result # <<>> THEN <<json_loads(hash.result)>> ELSE <<>>,
     error |-> hash.error,
     startedAt |-> hash.startedAt,
     completedAt |-> hash.completedAt]

\* What a call answers: an AgentStatusResponse (code 200) or an HTTPException
Response(op, workflow_id, code, status, result) ==
    [op |-> op, id |-> workflow_id, code |-> code, status |-> status,
     result |-> result]

NoResponse == Response("none", None, 200, None, <<>>)

\* The statuses for which cancel_agent_workflow answers without writing
\* (line 306)
CancelLeavesAlone == {"completed", "cancelled"}

\* cancel_agent_workflow, lines 300-315, for a hash that exists: the hash
\* afterwards and the response
cancel_agent_workflow(workflow_id, hash) ==
    LET status == get_workflow_status(hash)
    IN  IF status.status \in CancelLeavesAlone
        THEN [hash |-> hash,
              resp |-> Response("cancel", workflow_id, 200, status.status,
                                status.result)]
        ELSE [hash |-> set_workflow_status(hash, "cancelled", status.result, None,
                                           status.startedAt, status.completedAt),
              resp |-> Response("cancel", workflow_id, 200, "cancelled", <<>>)]

\* The Celery worker processes that run process_agent_workflow tasks
Workers == {"worker1", "worker2"}

\* A worker between two tasks.  cancel_seen is history: a cancel request
\* stored 'cancelled' for the task's workflow while the task was running.
NoTask == [pc |-> "idle", id |-> None, agentType |-> None, cancel_seen |-> FALSE]

-----------------------------------------------------------------------------
(* The code block extractors: utils.parse_code_blocks and                  *)
(* AgentOrchestrator._extract_code_from_message                            *)

\* A text is a sequence of characters; the three backticks of a fence are
\* kept as one character of the model, written "<fence>", since both
\* patterns only ever match them together
FENCE == "<fence>"
NL == "\n"
SP == " "

\* \w of the two patterns, on the characters of the model
IsWord(c) == c \in {"p", "P"}

\* The characters str.strip removes
IsSpace(c) == c \in {SP, NL}

\* str.lower on one character
LowerChar(c) == IF c = "P" THEN "p" ELSE c

\* str.lower
Lower(s) == [i \in 1..Len(s) |-> LowerChar(s[i])]

\* str.lstrip
RECURSIVE LStrip(_)
LStrip(s) == IF s # <<>> /\ IsSpace(Head(s)) THEN LStrip(Tail(s)) ELSE s

\* str.rstrip
RECURSIVE RStrip(_)
RStrip(s) ==
    IF s # <<>> /\ IsSpace(s[Len(s)]) THEN RStrip(SubSeq(s, 1, Len(s) - 1))
    ELSE s

\* str.strip
Strip(s) == RStrip(LStrip(s))

\* (\w*) is greedy: the first position from i on that holds no word character
RECURSIVE WordEnd(_, _)
WordEnd(text, i) ==
    IF i <= Len(text) /\ IsWord(text[i]) THEN WordEnd(text, i + 1) ELSE i

\* ([\s\S]*?)\n``` is lazy: the first position from j on that holds a newline
\* followed by a fence, or 0 when there is none
RECURSIVE BodyEnd(_, _)
BodyEnd(text, j) ==
    IF j + 1 > Len(text) THEN 0
    ELSE IF text[j] = NL /\ text[j + 1] = FENCE THEN j
    ELSE BodyEnd(text, j + 1)

NoMatch == [ok |-> FALSE, language |-> <<>>, code |-> <<>>, end |-> 0]

\* The match of ```(\w*)\n([\s\S]*?)\n``` that starts at position i, if any:
\* its two groups and the position after it.  Giving \w* fewer characters
\* than the greedy match never helps, since a word character is no newline.
MatchAt(text, i) ==
    IF i > Len(text) \/ text[i] # FENCE THEN NoMatch
    ELSE LET w == WordEnd(text, i + 1)
         IN  IF w > Len(text) \/ text[w] # NL THEN NoMatch
             ELSE LET e == BodyEnd(text, w + 1)
                  IN  IF e = 0 THEN NoMatch
                      ELSE [ok |-> TRUE,
                            language |-> SubSeq(text, i + 1, w - 1),
                            code |-> SubSeq(text, w + 1, e - 1),
                            end |-> e + 2]

\* re.findall(pattern, text): the matches that do not overlap, from the left
RECURSIVE findall(_, _)
findall(text, i) ==
    IF i > Len(text) THEN <<>>
    ELSE LET m == MatchAt(text, i)
         IN  IF m.ok
             THEN <<[language |-> m.language, code |-> m.code]>>
                  \o findall(text, m.end)
             ELSE findall(text, i + 1)

\* The default language of parse_code_blocks (utils.py:116)
TextLanguage == <<"t", "e", "x", "t">>

\* parse_code_blocks(text) (utils.py:96-120)
parse_code_blocks(text) ==
    LET matches == findall(text, 1)
    IN  [i \in 1..Len(matches) |->
            [language |-> IF matches[i].language # <<>>
                          THEN Lower(matches[i].language) ELSE TextLanguage,
             code |-> Strip(matches[i].code)]]

\* '\n\n'.join(code_blocks)
RECURSIVE Join(_)
Join(blocks) ==
    IF blocks = <<>> THEN <<>>
    ELSE IF Len(blocks) = 1 THEN blocks[1]
    ELSE blocks[1] \o <<NL, NL>> \o Join(Tail(blocks))

\* _extract_code_from_message(message) (config_multi_agents.py:191-202): the
\* optional group (?:\w+)? matches what (\w*) matches, and only the bodies
\* are captured
_extract_code_from_message(message) ==
    LET matches == findall(message, 1)
        code_blocks == [i \in 1..Len(matches) |-> matches[i].code]
    IN  IF code_blocks # <<>> THEN Join(code_blocks) ELSE message

\* The texts the extractors are applied to, given by their parts: stretches
\* of plain text and fenced blocks with a tag line and a body
Tags == {<<>>, <<"p">>, <<"P", "p">>}
Bodies == {<<"p">>, <<SP, "p">>, <<"p", NL, "p">>}
Plains == {<<"p", SP, "P">>, <<"p", NL>>}

PlainPart(body) == [kind |-> "plain", tag |-> <<>>, body |-> body]
BlockPart(tag, body) == [kind |-> "block", tag |-> tag, body |-> body]

Parts ==
    {PlainPart(b) : b \in Plains}
        \cup {BlockPart(tg, b) : tg \in Tags, b \in Bodies}

\* The characters of one part
RenderPart(part) ==
    IF part.kind = "plain" THEN part.body
    ELSE <<FENCE>> \o part.tag \o <<NL>> \o part.body \o <<NL, FENCE>>

\* The characters of a text
RECURSIVE Render(_)
Render(parts) ==
    IF parts = <<>> THEN <<>>
    ELSE RenderPart(Head(parts)) \o Render(Tail(parts))

\* The texts of up to n parts
RECURSIVE TextsOf(_)
TextsOf(n) ==
    IF n = 0 THEN {<<>>}
    ELSE TextsOf(n - 1)
             \cup {Append(p, q) : p \in TextsOf(n - 1), q \in Parts}

NoExtraction == [op |-> "none", parts |-> <<>>, text |-> <<>>, result |-> <<>>]

\* Nothing has been extracted
InitExtract == ex = NoExtraction

-----------------------------------------------------------------------------
(* The opening prompts of the group chats and is_termination_msg *)

\* A text is a sequence of phrases; "x in text" is membership of the phrase

\* What the caller may put into a field of task_data
Words == {"x", "y", "WORKFLOW FINISHED"}

\* The last line of every opening prompt (lines 267, 354, 460, 555)
ConcludeLine == <<"Please conclude with", "TASK COMPLETE", "when finished.">>

\* The fixed text of a prompt between the caller's fields and the last line
ProcessLines == <<"Please follow this process:", "The final output">>

\* detailed_prompt of _code_generation_workflow (lines 247-268)
detailed_prompt(prompt, language, framework, complexity, requirements) ==
    <<"Task: Generate code for:", prompt, "Language:", language>>
        \o (IF framework # "" THEN <<"Framework:", framework>> ELSE <<>>)
        \o <<"Complexity:", complexity>>
        \o (IF requirements # <<>>
            THEN <<"Additional Requirements:">> \o requirements ELSE <<>>)
        \o ProcessLines \o ConcludeLine

\* optimization_prompt of _code_optimization_workflow (lines 339-355)
optimization_prompt(optimization_target, language, code) ==
    <<"Task: Optimize the following code for", optimization_target,
      language, code>> \o ProcessLines \o ConcludeLine

\* deployment_prompt of _deployment_workflow (lines 439-461)
deployment_prompt(environment, target_platform, code, service_name) ==
    <<"Task: Deploy the following code to", environment, target_platform,
      code, "Service name:", service_name, "Target platform:",
      target_platform>> \o ProcessLines \o ConcludeLine

\* design_prompt of _architecture_design_workflow (lines 542-555)
design_prompt(requirements, scale, constraints) ==
    <<"Create a detailed architecture design with:", "Requirements:">>
        \o requirements \o <<"Scale:", scale, "Constraints:", constraints>>
        \o <<"Please provide:">> \o ConcludeLine

\* The message dict of a text: the argument the annotation of line 144 names
Message(content) == [keys |-> {"content", "role"}, content |-> content]

\* is_termination_msg(message) (lines 144-151)
is_termination_msg(message) ==
    /\ "content" \in message.keys
    /\ \/ InSeq("TASK COMPLETE", message.content)
       \/ InSeq("WORKFLOW FINISHED", message.content)

NoOpening == [workflow |-> None, message |-> Message(<<>>), terminates |-> FALSE]

\* What user_proxy.initiate_chat(manager, message=prompt) opens the chat with
Opening(workflow, prompt) ==
    [workflow |-> workflow, message |-> Message(prompt),
     terminates |-> is_termination_msg(Message(prompt))]

\* No chat has been opened
InitPrompt == opening = NoOpening

-----------------------------------------------------------------------------
(* The cache in its environment: one action per call *)

\* What a step that is no call on a key leaves as its return record
NoCall(op) == [op |-> op, key |-> 0, result |-> None]

\* History: the keys of u still held, k refreshed as the most recent use
Touch(u, k) == Append(SeqRestrict(u, Keys \ {k}), k)

Restrict(f, S) == [x \in (DOMAIN f) \cap S |-> f[x]]

InitCache ==
    /\ max_size \in MaxSizes
    /\ ttl \in TTLs
    /\ persist_path \in PersistPaths
    /\ cache = EmptyDict
    /\ access_order = <<>>
    /\ stats = ZeroStats
    /\ now = 0
    /\ disk = NoFile
    /\ ret = NoCall("init")
    /\ nops = 0
    /\ lastSet = EmptyDict
    /\ used = <<>>

\* cache.get(endpoint, payload)
Get(endpoint, payload) ==
    /\ nops < MaxOps
    /\ LET key == _generate_key(endpoint, payload)
           r == RequestCache_get(Self, key, now)
       IN  /\ cache' = r.self.cache
           /\ access_order' = r.self.access_order
           /\ stats' = r.self.stats
           /\ ret' = [op |-> "get", key |-> key, result |-> r.result]
           /\ lastSet' = Restrict(lastSet, DOMAIN r.self.cache)
           /\ used' = SeqRestrict(IF r.result \in Responses THEN Touch(used, key)
                                  ELSE used, DOMAIN r.self.cache)
    /\ nops' = nops + 1
    /\ UNCHANGED <<max_size, ttl, persist_path, now, disk>>
    /\ UNCHANGED <<wvars, avars, tvars, xvars>>

\* cache.set(endpoint, payload, response), the save included (lines 122-124)
Set(endpoint, payload, response) ==
    /\ nops < MaxOps
    /\ LET key == _generate_key(endpoint, payload)
           r == RequestCache_set(Self, key, response, now)
       IN  /\ cache' = r.self.cache
           /\ access_order' = r.self.access_order
           /\ stats' = r.self.stats
           /\ ret' = [op |-> "set", key |-> key, result |-> r.result]
           /\ disk' = IF r.result = None THEN _save_to_disk(r.self, disk, now)
                      ELSE disk
           /\ lastSet' = Restrict(IF r.result = None
                                  THEN DictPut(lastSet, key,
                                               [response |-> response, at |-> now])
                                  ELSE lastSet, DOMAIN r.self.cache)
           /\ used' = SeqRestrict(IF r.result = None THEN Touch(used, key)
                                  ELSE used, DOMAIN r.self.cache)
    /\ nops' = nops + 1
    /\ UNCHANGED <<max_size, ttl, persist_path, now>>
    /\ UNCHANGED <<wvars, avars, tvars, xvars>>

\* The process ends and a new one constructs its cache on the same file:
\* RequestCache(max_size=ms, ttl=ttl, persist_path=persist_path).  Without a
\* persist_path the new object is the initial state again.
Restart(ms) ==
    /\ nops < MaxOps
    /\ persist_path # NoPath
    /\ LET self == RequestCache_init(ms, ttl, persist_path, disk, now)
       IN  /\ cache' = self.cache
           /\ access_order' = self.access_order
           /\ stats' = self.stats
           /\ max_size' = self.max_size
           /\ ttl' = self.ttl
           /\ persist_path' = self.persist_path
           /\ used' = SeqRestrict(self.access_order, DOMAIN self.cache)
    /\ ret' = NoCall("init")
    /\ lastSet' = EmptyDict
    /\ nops' = nops + 1
    /\ UNCHANGED <<now, disk>>
    /\ UNCHANGED <<wvars, avars, tvars, xvars>>

\* The wall clock advances
Tick ==
    /\ nops < MaxOps
    /\ now' = now + 1
    /\ nops' = nops + 1
    /\ ret' = NoCall("tick")
    /\ UNCHANGED <<cache, access_order, stats, max_size, ttl, persist_path,
                   disk, lastSet, used>>
    /\ UNCHANGED <<wvars, avars, tvars, xvars>>

Next ==
    \/ \E q \in Requests : Get(q[1], q[2])
    \/ \E q \in Requests, r \in Responses : Set(q[1], q[2], r)
    \/ \E ms \in MaxSizes : Restart(ms)
    \/ Tick

\* What becomes of a saved file outside the cache: its bytes are damaged, a
\* key of the pickled dict is missing, the recency list or the entry map is
\* emptied
Damages == {"garbage", "no_access_order", "order_lost", "entries_lost"}

Damaged(file, damage) ==
    CASE damage = "garbage" -> GarbageFile
      [] damage = "no_access_order" ->
             [exists |-> TRUE, cache |-> file.cache, stats |-> file.stats,
              timestamp |-> file.timestamp]
      [] damage = "order_lost" -> [file EXCEPT !.access_order = <<>>]
      [] damage = "entries_lost" -> [file EXCEPT !.cache = EmptyDict]

\* The file at persist_path is changed behind the cache's back
DamageFile(damage) ==
    /\ nops < MaxOps
    /\ disk.exists /\ Unpickles(disk) /\ HasFields(disk)
    /\ DOMAIN disk.cache # {}
    /\ {disk.access_order[i] : i \in 1..Len(disk.access_order)} = DOMAIN disk.cache
    /\ disk' = Damaged(disk, damage)
    /\ nops' = nops + 1
    /\ ret' = NoCall("damage")
    /\ UNCHANGED <<cache, access_order, stats, max_size, ttl, persist_path,
                   now, lastSet, used>>
    /\ UNCHANGED <<wvars, avars, tvars, xvars>>

NextPersist ==
    \/ \E q \in Requests : Get(q[1], q[2])
    \/ \E q \in Requests, r \in Responses : Set(q[1], q[2], r)
    \/ \E ms \in MaxSizes : Restart(ms)
    \/ Tick
    \/ \E d \in Damages : DamageFile(d)

\* The orchestrator after construction: self.agents = {}
InitWorkflow ==
    /\ agents = FALSE
    /\ wf = [pc |-> "idle", task_type |-> None, complexity |-> None,
             participants |-> <<>>, chat_started |-> FALSE, chat_history |-> <<>>,
             failed_agent |-> None, error |-> None, result |-> NoResult]

\* No result has been scored
InitScore ==
    score = [workflow |-> None, complexity |-> None, errors |-> 0, agents |-> 0,
             reviewer |-> None, value |-> 0]

\* No call on main.py has been made
InitMain ==
    /\ hy = [pc |-> "idle", task_type |-> None, use_cloud |-> FALSE,
             complexity |-> None, parallel_execution |-> FALSE,
             call |-> HybridCall("none", NoOutcome, <<>>, ErrorReturn(None))]
    /\ batch = [pc |-> "idle", tasks |-> <<>>, returns |-> <<>>, results |-> <<>>]

\* Redis holds no workflow, no call has been made, no worker runs a task
InitApi ==
    /\ store = [w \in WorkflowIds |-> NoHash]
    /\ resp = NoResponse
    /\ task = [k \in Workers |-> NoTask]

\* No thread is in a call on the cache
InitThreads == th = [t \in Threads |-> Idle]

\* No client has been constructed
InitClient ==
    /\ client = NoClient
    /\ heap = [o \in ObjIds |-> {}]
    /\ cloud_call = NoClientCall
    /\ fetched = EmptyDict

InitApp ==
    InitScore /\ InitMain /\ InitApi /\ InitThreads /\ InitClient /\ InitExtract
        /\ InitPrompt

Init == InitCache /\ InitWorkflow /\ InitApp

Spec == Init /\ [][Next]_vars

\* A cache with a persistence file that something else can write
InitPersist == InitCache /\ persist_path = DirPath /\ InitWorkflow /\ InitApp

SpecPersist == InitPersist /\ [][NextPersist]_vars

-----------------------------------------------------------------------------
(* One RequestCache called from threads: one action per statement executed *)

\* The requests the threads make
ThreadRequests == {<<"/v1/code/generate", PayloadA>>, <<"/v1/code/generate", PayloadB>>}

\* A thread enters request_cache.get(endpoint, payload); line 70 is its own
ThreadCallGet(t, endpoint, payload) ==
    /\ nops < MaxOps
    /\ th[t].pc = "idle"
    /\ th' = [th EXCEPT ![t] = [Idle EXCEPT !.pc = "71", !.op = "get",
                                   !.key = _generate_key(endpoint, payload)]]
    /\ nops' = nops + 1
    /\ UNCHANGED <<cache, access_order, stats, max_size, ttl, persist_path,
                   now, disk, ret, lastSet, used>>
    /\ UNCHANGED <<wvars, avars, tvars, client, heap, cloud_call, fetched, ex, opening>>

\* A thread enters request_cache.set(endpoint, payload, response); line 97
\* is its own
ThreadCallSet(t, endpoint, payload, response) ==
    /\ nops < MaxOps
    /\ th[t].pc = "idle"
    /\ th' = [th EXCEPT ![t] = [Idle EXCEPT !.pc = "98", !.op = "set",
                                   !.key = _generate_key(endpoint, payload),
                                   !.response = response]]
    /\ nops' = nops + 1
    /\ UNCHANGED <<cache, access_order, stats, max_size, ttl, persist_path,
                   now, disk, ret, lastSet, used>>
    /\ UNCHANGED <<wvars, avars, tvars, client, heap, cloud_call, fetched, ex, opening>>

\* A thread inside get executes its next statement
ThreadGetStep(t) ==
    /\ th[t].op = "get" /\ th[t].pc \notin {"idle", "done"}
    /\ LET r == get_step(Self, th[t], now)
       IN  /\ cache' = r.self.cache
           /\ access_order' = r.self.access_order
           /\ stats' = r.self.stats
           /\ th' = [th EXCEPT ![t] = r.l]
    /\ UNCHANGED <<max_size, ttl, persist_path, now, disk, ret, nops, lastSet, used>>
    /\ UNCHANGED <<wvars, avars, tvars, client, heap, cloud_call, fetched, ex, opening>>

\* A thread inside set executes its next statement
ThreadSetStep(t) ==
    /\ th[t].op = "set" /\ th[t].pc \notin {"idle", "done"}
    /\ LET r == set_step(Self, th[t], now)
       IN  /\ cache' = r.self.cache
           /\ access_order' = r.self.access_order
           /\ stats' = r.self.stats
           /\ th' = [th EXCEPT ![t] = r.l]
    /\ UNCHANGED <<max_size, ttl, persist_path, now, disk, ret, nops, lastSet, used>>
    /\ UNCHANGED <<wvars, avars, tvars, client, heap, cloud_call, fetched, ex, opening>>

\* The caller has the value or the exception; the thread is outside the cache
ThreadReturn(t) ==
    /\ th[t].pc = "done"
    /\ th' = [th EXCEPT ![t] = Idle]
    /\ ret' = [op |-> th[t].op, key |-> th[t].key,
               result |-> IF th[t].raised # None THEN th[t].raised
                          ELSE th[t].result]
    /\ UNCHANGED <<cache, access_order, stats, max_size, ttl, persist_path,
                   now, disk, nops, lastSet, used>>
    /\ UNCHANGED <<wvars, avars, tvars, client, heap, cloud_call, fetched, ex, opening>>

NextThreads ==
    \/ \E t \in Threads, q \in ThreadRequests : ThreadCallGet(t, q[1], q[2])
    \/ \E t \in Threads, q \in ThreadRequests : ThreadCallSet(t, q[1], q[2], "r1")
    \/ \E t \in Threads : ThreadGetStep(t)
    \/ \E t \in Threads : ThreadSetStep(t)
    \/ \E t \in Threads : ThreadReturn(t)
    \/ Tick

\* The cache of the shared client: RequestCache(max_size, ttl) of line 235,
\* with room for one entry
InitShared ==
    /\ InitCache /\ max_size = 1 /\ persist_path = NoPath
    /\ InitWorkflow /\ InitApp

SpecThreads == InitShared /\ [][NextThreads]_vars

-----------------------------------------------------------------------------
(* The orchestrator: one action per call *)

\* setup_agents(), or initialize_agents() called directly
InitializeAgents ==
    /\ ~agents
    /\ agents' = TRUE
    /\ UNCHANGED wf
    /\ UNCHANGED <<cvars, avars, tvars, xvars>>

\* orchestrator.create_workflow(task_type, task_data), a synchronous call; the
\* group chat of the workflow hands back chat_history
CreateWorkflow(task_type, complexity) ==
    /\ wf.pc = "idle"
    /\ LET participants == Participants(task_type, ComplexityOf(complexity))
       IN  \/ \E chat_history \in Histories(participants) :
                  wf' = create_workflow(task_type, complexity, chat_history, None)
           \/ \E failed \in CallingAgents(participants) :
                  wf' = create_workflow(task_type, complexity, <<>>, failed)
    /\ agents' = TRUE
    /\ UNCHANGED <<cvars, avars, tvars, xvars>>

\* The caller takes the result or the exception; the orchestrator is idle again
Return ==
    /\ wf.pc # "idle"
    /\ wf' = [pc |-> "idle", task_type |-> None, complexity |-> None,
              participants |-> <<>>, chat_started |-> FALSE, chat_history |-> <<>>,
              failed_agent |-> None, error |-> None, result |-> NoResult]
    /\ UNCHANGED agents
    /\ UNCHANGED <<cvars, avars, tvars, xvars>>

NextWorkflow ==
    \/ InitializeAgents
    \/ \E t \in TaskTypes, c \in Complexities : CreateWorkflow(t, c)
    \/ Return

\* The cache of a process that only runs workflows: constructed, never called
InitCacheIdle ==
    /\ max_size = 1 /\ ttl = 1 /\ persist_path = NoPath
    /\ cache = EmptyDict /\ access_order = <<>> /\ stats = ZeroStats
    /\ now = 0 /\ disk = NoFile
    /\ ret = NoCall("init")
    /\ nops = 0 /\ lastSet = EmptyDict /\ used = <<>>

InitOrchestrator == InitCacheIdle /\ InitWorkflow /\ InitApp

SpecWorkflow == InitOrchestrator /\ [][NextWorkflow]_vars

-----------------------------------------------------------------------------
(* The confidence scorers on their own: one action per scorer, its inputs    *)
(* the counts and marks it reads in a transcript                             *)

\* What the last CodeReviewer message of a transcript says, None without one
ReviewerOutcomes == {None, "approved", "changes requested"}

\* _code_generation_workflow scores its result (lines 285-297) for a
\* transcript with a Processor message.  reviewer_messages is read only at
\* high complexity (line 280).
ScoreGeneration(complexity, n_errors, n_agents, reviewer) ==
    /\ n_agents >= 1
    /\ reviewer # None => n_agents >= 2
    /\ score' = [workflow |-> "code_generation",
                 complexity |-> ComplexityOf(complexity),
                 errors |-> n_errors, agents |-> n_agents, reviewer |-> reviewer,
                 value |-> GenerationConfidence(ComplexityOf(complexity),
                              ComplexityOf(complexity) = "high"
                                  /\ reviewer = "approved")]
    /\ UNCHANGED <<cvars, wvars, hy, batch, store, resp, tvars, xvars>>

\* _process_workflow_results scores the result of architecture_design
\* (line 609) for a transcript with n_errors error messages from n_agents
\* distinct names
ScoreResults(complexity, n_errors, n_agents, reviewer) ==
    /\ n_errors >= 1 => n_agents >= 1
    /\ reviewer # None => n_agents >= 1
    /\ score' = [workflow |-> "architecture_design",
                 complexity |-> ComplexityOf(complexity),
                 errors |-> n_errors, agents |-> n_agents, reviewer |-> reviewer,
                 value |-> _calculate_confidence_score(n_errors, n_agents)]
    /\ UNCHANGED <<cvars, wvars, hy, batch, store, resp, tvars, xvars>>

NextConfidence ==
    \/ \E c \in Complexities, e \in 0..MaxErrors, a \in 0..MaxContributors,
          r \in ReviewerOutcomes : ScoreGeneration(c, e, a, r)
    \/ \E c \in Complexities, e \in 0..MaxErrors, a \in 0..MaxContributors,
          r \in ReviewerOutcomes : ScoreResults(c, e, a, r)

InitConfidence == InitCacheIdle /\ InitWorkflow /\ InitApp

SpecConfidence == InitConfidence /\ [][NextConfidence]_vars

-----------------------------------------------------------------------------
(* main.py: one action per call *)

\* task_data['use_cloud'], ['complexity'] and ['parallel_execution'] of the
\* calls made: each strategy of hybrid_workflow is taken
HybridTaskTypes == {"code_generation", "code_optimization", "architecture_design",
                    "code_review", "invalid_task_type"}

\* await hybrid_workflow(task_type, task_data), with the outcomes of the calls
\* it makes on the cloud client and on the orchestrator
HybridWorkflow(task_type, use_cloud, complexity, parallel_execution) ==
    /\ hy.pc = "idle"
    /\ batch.pc = "idle"
    /\ \E cloud \in CloudOutcomes(task_type),
          local1 \in LocalOutcomes(task_type, complexity),
          local2 \in LocalOutcomes(task_type, complexity) :
          hy' = [pc |-> "returned", task_type |-> task_type,
                 use_cloud |-> use_cloud, complexity |-> ComplexityOf(complexity),
                 parallel_execution |-> parallel_execution,
                 call |-> hybrid_workflow(task_type, use_cloud, complexity,
                             parallel_execution, cloud, local1, local2)]
    /\ UNCHANGED <<cvars, wvars, score, batch, store, resp, tvars, xvars>>

\* The caller takes the dict
HybridReturn ==
    /\ hy.pc = "returned"
    /\ hy' = [pc |-> "idle", task_type |-> None, use_cloud |-> FALSE,
              complexity |-> None, parallel_execution |-> FALSE,
              call |-> HybridCall("none", NoOutcome, <<>>, ErrorReturn(None))]
    /\ UNCHANGED <<cvars, wvars, score, batch, store, resp, tvars, xvars>>

\* The task_type of a batch task: absent, empty, or a name
BatchTaskTypes == {None, "", "code_generation", "invalid_task_type"}

\* What hybrid_workflow returns for a batch task of each type, its task_data
\* being {'use_cloud': False}
BatchReturns ==
    [t \in BatchTaskTypes |->
        IF NoTaskType(t) THEN {MissingTaskType}
        ELSE {hybrid_workflow(t, FALSE, "absent", FALSE, NoOutcome, l, l).ret :
                 l \in LocalOutcomes(t, "absent")}]

\* await batch_process(tasks)
BatchProcess ==
    /\ hy.pc = "idle"
    /\ batch.pc = "idle"
    /\ \E n \in 0..MaxTasks :
          \E tasks \in [1..n -> BatchTaskTypes] :
             \E returns \in [1..n -> UNION {BatchReturns[t] : t \in BatchTaskTypes}] :
                /\ \A i \in 1..n : returns[i] \in BatchReturns[tasks[i]]
                /\ batch' = [pc |-> "returned", tasks |-> tasks, returns |-> returns,
                             results |-> batch_process(tasks, returns)]
    /\ UNCHANGED <<cvars, wvars, score, hy, store, resp, tvars, xvars>>

\* The caller takes the list
BatchReturn ==
    /\ batch.pc = "returned"
    /\ batch' = [pc |-> "idle", tasks |-> <<>>, returns |-> <<>>, results |-> <<>>]
    /\ UNCHANGED <<cvars, wvars, score, hy, store, resp, tvars, xvars>>

NextMain ==
    \/ \E t \in HybridTaskTypes, u \in BOOLEAN, c \in {"low", "high", "absent"},
          p \in BOOLEAN : HybridWorkflow(t, u, c, p)
    \/ HybridReturn
    \/ BatchProcess
    \/ BatchReturn

InitMainIdle == InitCacheIdle /\ InitWorkflow /\ InitApp

SpecMain == InitMainIdle /\ [][NextMain]_vars

-----------------------------------------------------------------------------
(* api.py: one action per endpoint and per worker task *)

\* event["agentType"] of the events the worker is given: a type the trigger
\* endpoint accepts (line 75) and a task type of the orchestrator
AgentTypes == {"compliance", "code_generation"}

\* The registry keys of the orchestrator the trigger endpoint looks in
\* (config_multi_agents.py:153-162)
RegistryKeys == {"data_collector", "processor", "storage_handler",
                 "code_reviewer", "architect", "user_proxy", "termination_func"}

\* f"{request.countryCode}_{request.agentType.lower()}" (line 256)
AgentKey(countryCode, agentType) == <<countryCode, "_", agentType>>

\* POST /api/v1/agents/trigger, lines 250-270: the agent key is never a key of
\* the registry, so the request ends with 404 before anything is written
TriggerAgentWorkflow(countryCode, agentType) ==
    /\ AgentKey(countryCode, agentType) \notin RegistryKeys
    /\ resp' = Response("trigger", None, 404, None, <<>>)
    /\ UNCHANGED <<store, task, cvars, wvars, score, hy, batch, xvars>>

\* What orchestrator.create_workflow(event.get("agentType"), payload) can come
\* to in the worker (line 146)
WorkerOutcomes == [t \in AgentTypes |-> LocalOutcomes(t, "absent")]

\* process_agent_workflow(event), lines 141-146: a worker takes the event and
\* starts the workflow; create_workflow runs while other processes act
StartAgentWorkflow(k, workflow_id, agentType) ==
    /\ task[k].pc = "idle"
    /\ task' = [task EXCEPT ![k] = [pc |-> "running", id |-> workflow_id,
                                    agentType |-> agentType,
                                    cancel_seen |-> FALSE]]
    /\ UNCHANGED <<store, resp, cvars, wvars, score, hy, batch, xvars>>

\* process_agent_workflow(event), lines 147-170: create_workflow has returned
\* or raised, the worker writes completed or failed.  Nothing is read from
\* the store before the write.
ProcessAgentWorkflow(k) ==
    /\ task[k].pc = "running"
    /\ \E l \in WorkerOutcomes[task[k].agentType] :
          store' = [store EXCEPT ![task[k].id] =
                       IF l.raised
                       THEN set_workflow_status(@, "failed", <<>>, l.error,
                                                Timestamp, Timestamp)
                       ELSE set_workflow_status(@, "completed", <<l.result>>, None,
                                                Timestamp, Timestamp)]
    /\ resp' = Response("process", task[k].id, 200, None, <<>>)
    /\ task' = [task EXCEPT ![k] = NoTask]
    /\ UNCHANGED <<cvars, wvars, score, hy, batch, xvars>>

\* GET /api/v1/agents/status/{workflow_id}, lines 273-279
GetAgentWorkflowStatus(workflow_id) ==
    /\ resp' = IF ~store[workflow_id].exists
               THEN Response("status", workflow_id, 404, None, <<>>)
               ELSE LET status == get_workflow_status(store[workflow_id])
                    IN  Response("status", workflow_id, 200, status.status,
                                 status.result)
    /\ UNCHANGED <<store, task, cvars, wvars, score, hy, batch, xvars>>

\* POST /api/v1/agents/cancel/{workflow_id}, lines 300-315
CancelAgentWorkflow(workflow_id) ==
    /\ IF ~store[workflow_id].exists
       THEN /\ resp' = Response("cancel", workflow_id, 404, None, <<>>)
            /\ UNCHANGED <<store, task>>
       ELSE LET c == cancel_agent_workflow(workflow_id, store[workflow_id])
            IN  /\ store' = [store EXCEPT ![workflow_id] = c.hash]
                /\ resp' = c.resp
                /\ task' = [k \in Workers |->
                               IF /\ task[k].pc = "running"
                                  /\ task[k].id = workflow_id
                                  /\ c.hash.status = "cancelled"
                               THEN [task[k] EXCEPT !.cancel_seen = TRUE]
                               ELSE task[k]]
    /\ UNCHANGED <<cvars, wvars, score, hy, batch, xvars>>

NextApi ==
    \/ \E cc \in {"US"}, t \in {"compliance", "security"} :
          TriggerAgentWorkflow(cc, t)
    \/ \E k \in Workers, w \in WorkflowIds, t \in AgentTypes :
          StartAgentWorkflow(k, w, t)
    \/ \E k \in Workers : ProcessAgentWorkflow(k)
    \/ \E w \in WorkflowIds : GetAgentWorkflowStatus(w)
    \/ \E w \in WorkflowIds : CancelAgentWorkflow(w)

InitApiIdle == InitCacheIdle /\ InitWorkflow /\ InitApp

SpecApi == InitApiIdle /\ [][NextApi]_vars

-----------------------------------------------------------------------------
(* The client and its callers: one action per call *)

\* The requests made of the client
ClientRequests == {<<"/v1/code/generate", PayloadA>>, <<"/v1/code/generate", PayloadB>>}

\* AzureAIFoundry(): hybrid_workflow constructs a client on every call
\* (main.py:44), get_azure_foundry_client on its first (lines 509-514).  The
\* client's cache is a new RequestCache(max_size, ttl) without a
\* persist_path (line 235), here with room for every request of the model.
Construct(use_mock, is_configured, use_cache) ==
    /\ nops < MaxOps
    /\ client' = AzureAIFoundry_init(use_mock, is_configured, use_cache)
    /\ cache' = EmptyDict
    /\ access_order' = <<>>
    /\ stats' = ZeroStats
    /\ max_size' = Cardinality(ClientRequests)
    /\ \E tl \in TTLs : ttl' = tl
    /\ persist_path' = NoPath
    /\ lastSet' = EmptyDict
    /\ heap' = Collect(heap, EmptyDict, cloud_call.returned)
    /\ ret' = NoCall("init")
    /\ nops' = nops + 1
    /\ UNCHANGED <<now, disk, used, cloud_call, fetched, th, ex, opening>>
    /\ UNCHANGED <<wvars, avars, tvars>>

\* await client.process_code_generation(prompt, options)
ProcessCodeGeneration(endpoint, payload, auth_ok, outcome, content) ==
    /\ nops < MaxOps
    /\ client.exists
    /\ LET obj == CHOOSE o \in ObjIds :
                      \A k \in DOMAIN cache : cache[k].response # o
       IN
          /\ LET key == _generate_key(endpoint, payload)
                 r == process_code_generation(Self, client, heap, key, now,
                                              auth_ok, outcome, obj, content)
             IN  /\ cache' = r.self.cache
                 /\ access_order' = r.self.access_order
                 /\ stats' = r.self.stats
                 /\ cloud_call' = r.call
                 /\ heap' = Collect(r.heap, r.self.cache, r.call.returned)
                 /\ ret' = [op |-> "process", key |-> key,
                            result |-> r.call.returned]
                 /\ lastSet' = Restrict(IF r.call.stored
                                        THEN DictPut(lastSet, key,
                                                 [response |-> obj, at |-> now,
                                                  content |-> content])
                                        ELSE lastSet, DOMAIN r.self.cache)
                 /\ fetched' = IF r.call.backend = "ok"
                               THEN DictPut(fetched, key, now) ELSE fetched
    /\ nops' = nops + 1
    /\ UNCHANGED <<max_size, ttl, persist_path, now, disk, used, client, th, ex, opening>>
    /\ UNCHANGED <<wvars, avars, tvars>>

\* The caller writes into the dict it was handed: result['metadata'] = ...
\* (main.py:149)
AddMetadata ==
    /\ nops < MaxOps
    /\ cloud_call.returned \in ObjIds
    /\ heap' = [heap EXCEPT ![cloud_call.returned] = @ \cup {"metadata"}]
    /\ ret' = NoCall("metadata")
    /\ nops' = nops + 1
    /\ UNCHANGED <<cache, access_order, stats, max_size, ttl, persist_path,
                   now, disk, lastSet, used, client, cloud_call, fetched, th, ex, opening>>
    /\ UNCHANGED <<wvars, avars, tvars>>

\* The wall clock advances while a client exists
ClientTick ==
    /\ nops < MaxOps
    /\ now' = now + 1
    /\ nops' = nops + 1
    /\ ret' = NoCall("tick")
    /\ UNCHANGED <<cache, access_order, stats, max_size, ttl, persist_path,
                   disk, lastSet, used, client, heap, cloud_call, fetched, th, ex, opening>>
    /\ UNCHANGED <<wvars, avars, tvars>>

NextClient ==
    \/ \E m \in BOOLEAN, cfg \in BOOLEAN, uc \in BOOLEAN : Construct(m, cfg, uc)
    \/ \E q \in ClientRequests, a \in BOOLEAN,
          o \in {"ok", "non200", "exception"}, c \in ResponseContents :
          ProcessCodeGeneration(q[1], q[2], a, o, c)
    \/ AddMetadata
    \/ ClientTick

InitNoClient == InitCacheIdle /\ InitWorkflow /\ InitApp

SpecClient == InitNoClient /\ [][NextClient]_vars

-----------------------------------------------------------------------------
(* The extractors applied on their own: each is a function of its text, so  *)
(* one application per behaviour covers what it can do                      *)

\* parse_code_blocks(text) is called and returns
ParseCodeBlocks(parts) ==
    /\ ex = NoExtraction
    /\ ex' = [op |-> "parse_code_blocks", parts |-> parts,
              text |-> Render(parts),
              result |-> parse_code_blocks(Render(parts))]
    /\ UNCHANGED <<cvars, wvars, avars, tvars,
                   th, client, heap, cloud_call, fetched, opening>>

\* self._extract_code_from_message(message) is called and returns
ExtractCodeFromMessage(parts) ==
    /\ ex = NoExtraction
    /\ ex' = [op |-> "_extract_code_from_message", parts |-> parts,
              text |-> Render(parts),
              result |-> _extract_code_from_message(Render(parts))]
    /\ UNCHANGED <<cvars, wvars, avars, tvars,
                   th, client, heap, cloud_call, fetched, opening>>

NextExtract ==
    \/ \E parts \in TextsOf(MaxParts) : ParseCodeBlocks(parts)
    \/ \E parts \in TextsOf(MaxParts) : ExtractCodeFromMessage(parts)

SpecExtract == Init /\ [][NextExtract]_vars

-----------------------------------------------------------------------------
(* The opening prompts: one action per workflow that opens a group chat *)

\* _code_generation_workflow builds its prompt and opens the chat
OpenCodeGeneration(prompt, language, framework, complexity, requirements) ==
    /\ opening = NoOpening
    /\ opening' = Opening("code_generation",
                       detailed_prompt(prompt, language, framework,
                                       complexity, requirements))
    /\ UNCHANGED <<cvars, wvars, avars, tvars,
                   th, client, heap, cloud_call, fetched, ex>>

\* _code_optimization_workflow builds its prompt and opens the chat
OpenCodeOptimization(optimization_target, language, code) ==
    /\ opening = NoOpening
    /\ opening' = Opening("code_optimization",
                       optimization_prompt(optimization_target, language, code))
    /\ UNCHANGED <<cvars, wvars, avars, tvars,
                   th, client, heap, cloud_call, fetched, ex>>

\* _deployment_workflow builds its prompt and opens the chat
OpenDeployment(environment, target_platform, code, service_name) ==
    /\ opening = NoOpening
    /\ opening' = Opening("deployment",
                       deployment_prompt(environment, target_platform, code,
                                         service_name))
    /\ UNCHANGED <<cvars, wvars, avars, tvars,
                   th, client, heap, cloud_call, fetched, ex>>

\* _architecture_design_workflow builds its prompt and opens the chat
OpenArchitectureDesign(requirements, scale, constraints) ==
    /\ opening = NoOpening
    /\ opening' = Opening("architecture_design",
                       design_prompt(requirements, scale, constraints))
    /\ UNCHANGED <<cvars, wvars, avars, tvars,
                   th, client, heap, cloud_call, fetched, ex>>

NextPrompt ==
    \/ \E p \in Words, l \in {"python", "javascript"}, f \in {"", "x"},
          c \in {"low", "medium", "high"}, r \in {<<>>, <<"x">>} :
          OpenCodeGeneration(p, l, f, c, r)
    \/ \E o \in {"performance", "memory"}, l \in {"python", "javascript"},
          c \in Words : OpenCodeOptimization(o, l, c)
    \/ \E e \in {"development", "production"}, tp \in {"kubernetes", "azure"},
          c \in Words, n \in {"default-service", "x"} :
          OpenDeployment(e, tp, c, n)
    \/ \E r \in {<<>>, <<"x">>, <<"x", "y">>}, sc \in {"medium", "large"},
          k \in Words : OpenArchitectureDesign(r, sc, k)

SpecPrompt == InitOrchestrator /\ [][NextPrompt]_vars

-----------------------------------------------------------------------------
(* Claims about the cache, checked under Spec *)

Size == Cardinality(DOMAIN cache)

KeyA == _generate_key("/v1/code/generate", PayloadA)
KeyB == _generate_key("/v1/code/generate", PayloadB)
KeyC == _generate_key("/v1/code/optimize", PayloadA)

\* C1: after any sequence of Get and Set operations, also on a cache whose
\* state was loaded from disk at construction, the number of stored entries
\* never exceeds the configured max_size.
C1_SizeWithinMax == Size <= max_size

\* C2: a Set with a new key while the cache is at capacity (and holds an
\* entry) completes, evicts exactly one entry, the one whose last use (a Get
\* hit or a Set) is the oldest, and adds 1 to the eviction counter.
C2_EvictsLeastRecentlyUsed ==
    [][(/\ ret'.op = "set"
        /\ ret'.key \notin DOMAIN cache
        /\ Size >= max_size
        /\ Size > 0)
       => /\ ret'.result = None
          /\ DOMAIN cache' = ((DOMAIN cache) \ {Head(used)}) \cup {ret'.key}
          /\ Cardinality((DOMAIN cache) \ (DOMAIN cache')) = 1
          /\ stats'.evictions = stats.evictions + 1]_vars

\* C2's case: max_size = 2 and Set(A), Set(B), Set(C) have left exactly {B, C}
C2_Witness ==
    /\ max_size = 2 /\ nops = 3 /\ stats.insertions = 3 /\ stats.evictions = 1
    /\ ret.op = "set" /\ ret.key = KeyC
    /\ DOMAIN cache = {KeyB, KeyC} /\ access_order = <<KeyB, KeyC>>

\* C3: Set(e, p, r) followed by Get(e, p) no later than the entry's expiry,
\* with no eviction or overwrite of that key in between, returns r and counts
\* a hit.
C3_RoundTrip ==
    [][(/\ ret'.op = "get"
        /\ ret'.key \in DOMAIN lastSet
        /\ now <= lastSet[ret'.key].at + ttl)
       => /\ ret'.result = lastSet[ret'.key].response
          /\ stats'.hits = stats.hits + 1]_vars

\* C3's case: a Get hit at the very instant the entry set earlier expires,
\* other calls having come between the Set and the Get
C3_Witness ==
    /\ ret.op = "get" /\ ret.result \in Responses
    /\ ret.key \in DOMAIN lastSet
    /\ now = lastSet[ret.key].at + ttl
    /\ stats.insertions >= 2

\* C4: a Get for a key that is present but whose expiresAt has passed returns
\* a miss, removes the entry from the entry map and from the recency list
\* (the size drops by 1), and adds 1 to expirations and to misses and nothing
\* to hits.
C4_ExpiredGet ==
    [][(/\ ret'.op = "get"
        /\ ret'.key \in DOMAIN cache
        /\ now > cache[ret'.key].expires_at)
       => /\ ret'.result = None
          /\ ret'.key \notin DOMAIN cache'
          /\ ~InSeq(ret'.key, access_order')
          /\ Cardinality(DOMAIN cache') = Size - 1
          /\ Len(access_order') = Len(access_order) - 1
          /\ stats'.expirations = stats.expirations + 1
          /\ stats'.misses = stats.misses + 1
          /\ stats'.hits = stats.hits]_vars

\* C4's case: a Get has just removed the one entry of a cache that was never
\* persisted, because it had expired
C4_Witness ==
    /\ persist_path = NoPath /\ ret.op = "get" /\ ret.result = None
    /\ stats.insertions = 1 /\ stats.expirations = 1 /\ stats.misses = 1
    /\ DOMAIN cache = {} /\ access_order = <<>>

\* C5 as stated: in every reachable state, at any observation time, every
\* entry held has expiresAt in the future.
C5_NoExpiredEntryStored == \A k \in DOMAIN cache : ~(now > cache[k].expires_at)

\* C5 amended: an entry returned by a Get has not expired, the key of a Get
\* is not left stored expired, and no entry is left stored expired by a load
\* from disk; between such calls an expired entry stays stored.
C5_ExpiredNeverServed ==
    [][/\ (ret'.op = "get" /\ ret'.result \in Responses)
           => (ret'.key \in DOMAIN cache /\ now <= cache[ret'.key].expires_at)
       /\ (ret'.op = "get" /\ ret'.key \in DOMAIN cache')
           => now' <= cache'[ret'.key].expires_at
       /\ ret'.op = "init"
           => \A k \in DOMAIN cache' : now' <= cache'[k].expires_at]_vars

\* C5's case: a Get hit while another entry, already expired, is still stored
C5_Witness ==
    /\ ret.op = "get" /\ ret.result \in Responses
    /\ \E k \in DOMAIN cache : now > cache[k].expires_at

\* C6: no Get and no Set lowers any of the counters hits, misses, evictions,
\* expirations, insertions, and a load from disk lowers none of the counters
\* it read from the file.
C6_CountersMonotone ==
    [][/\ ret'.op # "init" => \A c \in Counters : stats'[c] >= stats[c]
       /\ (ret'.op = "init" /\ persist_path' # NoPath /\ disk.exists)
           => \A c \in Counters : stats'[c] >= disk.stats[c]]_vars

\* C6's case: hits, misses, evictions and insertions have all been counted
C6_Witness ==
    /\ stats.hits >= 1 /\ stats.misses >= 1
    /\ stats.evictions >= 1 /\ stats.insertions >= 2


\* The status a caller reads in a result dict: the dict's own verdict on the
\* task, whichever key carries it
StatusOf(result) ==
    IF "error" \in result.keys THEN "failed"
    ELSE IF "success" \in result.keys /\ ~result.success THEN "failed"
    ELSE "completed"

\* C7: a create_workflow call whose task type is outside the supported set is
\* rejected with the unknown-task-type error, and no conversation was started.
C7_UnknownTaskRejected ==
    (wf.pc # "idle" /\ wf.task_type \notin SupportedTaskTypes)
        => /\ wf.pc = "raised"
           /\ wf.error = "ValueError: Unknown task type"
           /\ ~wf.chat_started
           /\ wf.chat_history = <<>>

\* C8: a create_workflow call with a supported task type returns a result,
\* and the result's status is completed, failed or partial.
C8_SupportedReturnsStatus ==
    (wf.pc # "idle" /\ wf.task_type \in SupportedTaskTypes)
        => /\ wf.pc = "returned"
           /\ StatusOf(wf.result) \in {"completed", "failed", "partial"}

\* C9: the group chat of a code_generation workflow has the user proxy and the
\* processor at low complexity, the architect and the data collector as well
\* at medium, and the reviewer as well at high; each participant once.
C9_ParticipantsByComplexity ==
    (wf.pc # "idle" /\ wf.task_type = "code_generation"
        /\ wf.complexity \in {"low", "medium", "high"})
        => LET P == {wf.participants[i] : i \in 1..Len(wf.participants)}
           IN  /\ wf.chat_started
               /\ Cardinality(P) = Len(wf.participants)
               /\ wf.complexity = "low" => P = {"user_proxy", "processor"}
               /\ wf.complexity = "medium"
                      => P = {"user_proxy", "processor", "architect",
                              "data_collector"}
               /\ wf.complexity = "high"
                      => P = {"user_proxy", "processor", "architect",
                              "data_collector", "code_reviewer"}

\* A high-complexity code_generation call has returned its code
C9_Witness ==
    /\ wf.pc = "returned"
    /\ wf.task_type = "code_generation"
    /\ wf.complexity = "high"
    /\ "code" \in wf.result.keys
    /\ Len(wf.participants) = 5

\* C12: when an agent whose role has a fallback fails during the round, the
\* failure is caught: create_workflow returns, and its result is not failed.
C12_CoveredFailureIsCaught ==
    (wf.pc # "idle" /\ wf.chat_started /\ wf.failed_agent # None
        /\ _handle_agent_failure(wf.failed_agent).success)
        => /\ wf.pc = "returned"
           /\ StatusOf(wf.result) # "failed"

\* C13: when an agent whose role has no fallback fails during the round, the
\* round is not aborted: create_workflow returns a result, and the result's
\* errors hold exactly one entry for the failure.
C13_UncoveredFailureIsRecorded ==
    (wf.pc # "idle" /\ wf.chat_started /\ wf.failed_agent # None
        /\ ~_handle_agent_failure(wf.failed_agent).success)
        => /\ wf.pc = "returned"
           /\ "errors" \in wf.result.keys
           /\ wf.result.errors = 1

\* C14: the confidence a scorer gives is within [0, 1] (0..10 in tenths)
\* for every error count, number of contributing agents, complexity and
\* reviewer outcome.
C14_ConfidenceInUnitInterval ==
    score.workflow # None => (score.value >= 0 /\ score.value <= 10)

\* Ten errors and fewer than three agents: the penalty is floored at 0
C14_Witness ==
    /\ score.workflow = "architecture_design"
    /\ score.errors = 10
    /\ score.agents = 2
    /\ score.value = 0

\* min(a, b) and max(a, b) of the claims' formulas
Min(a, b) == IF a < b THEN a ELSE b
Max(a, b) == IF a > b THEN a ELSE b

\* C15 as stated: for every workflow the confidence is min(1, max(0, 0.7 -
\* 0.1 * errors) + 0.2 if low + 0.1 if a reviewer approved + 0.2 if at least
\* 3 agents contributed).
C15_OneFormulaForEveryWorkflow ==
    score.workflow # None
        => score.value =
             Min(10, Max(0, 7 - score.errors)
                     + (IF score.complexity = "low" THEN 2 ELSE 0)
                     + (IF score.reviewer = "approved" THEN 1 ELSE 0)
                     + (IF score.agents >= 3 THEN 2 ELSE 0))

\* C15 amended: code_generation's confidence is min(1, 0.7 + 0.2 if low + 0.1
\* if the complexity is high and the last reviewer message approves);
\* architecture_design's is min(1, max(0, 0.7 - 0.1 * errors) + 0.2 if at least
\* 3 agents contributed), the floor before the bonus and the ceiling last.
C15_FormulaPerWorkflow ==
    /\ score.workflow = "code_generation"
          => score.value =
               Min(10, 7 + (IF score.complexity = "low" THEN 2 ELSE 0)
                         + (IF score.complexity = "high"
                               /\ score.reviewer = "approved" THEN 1 ELSE 0))
    /\ score.workflow = "architecture_design"
          => score.value =
               Min(10, Max(0, 7 - score.errors)
                       + (IF score.agents >= 3 THEN 2 ELSE 0))

\* Eight errors from three agents: the floor comes first, then the bonus
C15_Witness ==
    /\ score.workflow = "architecture_design"
    /\ score.errors = 8
    /\ score.agents = 3
    /\ score.value = 2

\* A result that is marked as a failure: a success flag that is false, a
\* status that says failed, or an "error" key
MarkedFailed(result) ==
    \/ "success" \in result.keys /\ ~result.success
    \/ "status" \in result.keys /\ result.status = "deployment_failed"
    \/ "error" \in result.keys

\* The errors a result records: the entries of its errors list, or the
\* message under its "error" key
HasErrors(result) ==
    \/ "errors" \in result.keys /\ result.errors >= 1
    \/ "error" \in result.keys /\ result.error # None

-----------------------------------------------------------------------------
(* Claims about the persistence file, checked under Spec *)

\* The keys of a saved state whose entries have not expired at time t
Unexpired(file, t) == {k \in DOMAIN file.cache : t <= file.cache[k].expires_at}

\* C22: a new RequestCache that loads the file a Set has saved holds every
\* unexpired entry of the file with the same response and expires_at and no
\* other entry, the unexpired keys in the recency order of the file, and the
\* counters of the file: hits, misses, evictions and insertions as saved,
\* expirations as saved when no entry of the file has expired.
C22_SaveLoadRoundTrip ==
    [][(ret'.op = "init" /\ disk.exists)
       => LET live == Unexpired(disk, now) IN
          /\ DOMAIN cache' = live
          /\ \A k \in live : cache'[k] = disk.cache[k]
          /\ access_order' = SeqRestrict(disk.access_order, live)
          /\ \A c \in Counters \ {"expirations"} : stats'[c] = disk.stats[c]
          /\ live = DOMAIN disk.cache => stats' = disk.stats]_vars

\* C22's case: a cache of two entries, one of them used by a Get hit before
\* the last save, has been loaded by a new object
C22_Witness ==
    /\ ret.op = "init" /\ nops >= 4 /\ disk.exists
    /\ Cardinality(DOMAIN cache) = 2
    /\ cache = disk.cache /\ access_order = disk.access_order
    /\ stats = disk.stats /\ stats.hits = 1 /\ stats.insertions = 2

\* C23: a load from the persistence file removes every entry of the file
\* that has expired at load time from the entry map and from the recency
\* list, removes no other entry, and adds to the expirations counter of the
\* file exactly the number of entries removed.
C23_LoadDropsExpired ==
    [][(ret'.op = "init" /\ disk.exists)
       => LET dead == (DOMAIN disk.cache) \ Unexpired(disk, now) IN
          /\ \A k \in dead : k \notin DOMAIN cache' /\ ~InSeq(k, access_order')
          /\ (DOMAIN disk.cache) \ (DOMAIN cache') = dead
          /\ Len(disk.access_order) - Len(access_order') = Cardinality(dead)
          /\ stats'.expirations = disk.stats.expirations + Cardinality(dead)]_vars

\* C23's case: of the two entries of the file one has expired at load time
\* and is gone, the other is kept
C23_Witness ==
    /\ ret.op = "init" /\ nops >= 1 /\ disk.exists
    /\ Cardinality(DOMAIN disk.cache) = 2
    /\ Cardinality(DOMAIN cache) = 1 /\ Len(access_order) = 1
    /\ stats.expirations = disk.stats.expirations + 1

\* A file that is corrupt, unreadable or internally inconsistent: no pickle,
\* a pickle without one of its keys, or one whose recency list and entry map
\* do not hold the same keys
Inconsistent(file) ==
    \/ ~Unpickles(file)
    \/ ~HasFields(file)
    \/ {file.access_order[i] : i \in 1..Len(file.access_order)} # DOMAIN file.cache

\* C24: a cache constructed on a corrupt, unreadable or inconsistent file
\* starts with no entries and an empty recency list, and no Get or Set on
\* that cache raises.
C24_DamagedFileStartsEmpty ==
    [][/\ (ret'.op = "init" /\ disk.exists /\ Inconsistent(disk))
          => (cache' = EmptyDict /\ access_order' = <<>>)
       /\ (disk.exists /\ Inconsistent(disk) /\ ret'.op \in {"get", "set"}
           /\ max_size > 0)
          => ret'.result \notin {"ValueError", "KeyError", "IndexError"}]_vars

-----------------------------------------------------------------------------
(* Claims about main.py, checked under SpecMain *)

\* A cloud call that failed: it raised, or its result holds 'error'
CloudFailed(cloud) == cloud.raised \/ "error" \in cloud.result.keys

\* The error of a failed cloud call
CloudError(cloud) == IF cloud.raised THEN cloud.error ELSE cloud.result.error

\* The last call hybrid_workflow made on the orchestrator
LastLocal == hy.call.locals[Len(hy.call.locals)]

\* C17: after a failed cloud call hybrid_workflow has run the orchestrator and
\* returns its result; the cloud's error is in the returned dict only if the
\* orchestrator failed as well.
C17_CloudFailureFallsBackToLocal ==
    (hy.pc = "returned" /\ hy.call.cloud_called /\ CloudFailed(hy.call.cloud))
        => /\ hy.call.locals # <<>>
           /\ ~LastLocal.raised
                 => /\ hy.call.ret.source = "local"
                    /\ hy.call.ret.result = LastLocal.result
                    /\ hy.call.ret.error = LastLocal.result.error
           /\ LastLocal.raised
                 => /\ hy.call.ret.source = "except"
                    /\ hy.call.ret.error = LastLocal.error
           /\ hy.call.ret.error = CloudError(hy.call.cloud) => LastLocal.raised

\* Cloud first: the cloud returned an error result, the orchestrator's code
\* is what the caller gets
C17_Witness ==
    /\ hy.pc = "returned"
    /\ hy.call.strategy = "cloud_first"
    /\ hy.call.cloud_called
    /\ "error" \in hy.call.cloud.result.keys
    /\ hy.call.ret.source = "local"
    /\ "code" \in hy.call.ret.keys

C19_OneResultPerTask ==
    batch.pc = "returned"
        => /\ Len(batch.results) = Len(batch.tasks)
           /\ \A i \in 1..Len(batch.tasks) :
                 /\ NoTaskType(batch.tasks[i])
                       => /\ batch.results[i].source = "batch"
                          /\ "error" \in batch.results[i].keys
                 /\ ~NoTaskType(batch.tasks[i])
                       => /\ batch.results[i] = batch.returns[i]
                          /\ batch.returns[i].source = "except"
                                => "error" \in batch.results[i].keys

\* A failing task, a task without task_type, then a task that gets its code
C19_Witness ==
    /\ batch.pc = "returned"
    /\ Len(batch.tasks) = 3
    /\ batch.tasks[1] = "invalid_task_type"
    /\ batch.tasks[2] = None
    /\ batch.tasks[3] = "code_generation"
    /\ "error" \in batch.results[1].keys
    /\ batch.results[2].error = "Missing task_type in batch task"
    /\ "code" \in batch.results[3].keys

-----------------------------------------------------------------------------
(* Claims about api.py, checked under SpecApi *)

\* C20: a cancel request for a workflow whose stored status is completed,
\* cancelled or failed leaves the status store as it is and answers with the
\* stored status.
C20_CancelOfTerminalIsNoOp ==
    [][(resp'.op = "cancel"
        /\ store[resp'.id].exists
        /\ store[resp'.id].status \in {"completed", "cancelled", "failed"})
          => /\ store' = store
             /\ resp'.code = 200
             /\ resp'.status = store[resp'.id].status]_vars

\* C21: once a cancel request has stored 'cancelled' for a workflow whose
\* task is running, the worker that finishes the task later leaves the
\* stored status at 'cancelled'.
C21_CancelledIsNotOverwritten ==
    [][\A k \in Workers :
          (/\ task[k].pc = "running"
           /\ task[k].cancel_seen
           /\ store[task[k].id].status = "cancelled"
           /\ task'[k].pc = "idle")
             => store'[task[k].id].status = "cancelled"]_vars

-----------------------------------------------------------------------------
(* Claims about callers on threads, checked under SpecThreads *)

\* The recency list and the entry map hold the same keys, each key once
ListAgreesWithMap ==
    /\ {access_order[i] : i \in 1..Len(access_order)} = DOMAIN cache
    /\ Len(access_order) = Cardinality(DOMAIN cache)

\* C25: with callers on several threads, whenever no caller is inside get or
\* set the recency list and the entry map agree, and no call on a cache that
\* has room for an entry ends with an exception.
C25_NoTornStateNoFailure ==
    /\ (\A t \in Threads : th[t].pc \in {"idle", "done"}) => ListAgreesWithMap
    /\ \A t \in Threads : th[t].raised = None

-----------------------------------------------------------------------------
(* Claims about the client and its cache, checked under SpecClient *)

\* C26: a Get hit hands out the response as it was when it was stored,
\* whatever the callers that were handed the dict have done with it since.
C26_StoredResponseUnchanged ==
    [][(/\ ret'.op = "process"
        /\ cloud_call'.lookup \in ObjIds
        /\ ret'.key \in DOMAIN lastSet)
       => heap[cloud_call'.lookup] = lastSet[ret'.key].content]_vars

\* C27: a process_code_generation call whose backend call did not answer 200
\* -- it failed, authentication failed, the client is a mock, or the lookup
\* hit -- stores nothing: no insertion is counted and no entry is added or
\* replaced; and a key enters the cache only in a call whose lookup missed
\* and whose backend call answered 200.
C27_OnlySuccessIsCached ==
    [][ret'.op = "process"
       => /\ cloud_call'.backend # "ok"
             => /\ stats'.insertions = stats.insertions
                /\ DOMAIN cache' \subseteq DOMAIN cache
                /\ \A k \in DOMAIN cache' : cache'[k] = cache[k]
          /\ \A k \in (DOMAIN cache') \ (DOMAIN cache) :
                /\ k = ret'.key
                /\ cloud_call'.looked_up /\ cloud_call'.lookup = None
                /\ cloud_call'.auth = "ok" /\ cloud_call'.backend = "ok"
                /\ stats'.misses = stats.misses + 1]_vars

\* C27's case: a configured client with its cache on has missed, called the
\* backend, got a status other than 200, and its cache is still empty
C27_Witness ==
    /\ ret.op = "process"
    /\ client.cache_enabled /\ ~client.use_mock
    /\ cloud_call.looked_up /\ cloud_call.backend = "non200"
    /\ cloud_call.returned = "error"
    /\ stats.misses = 1 /\ stats.insertions = 0 /\ cache = EmptyDict

\* C28: a client with its cache enabled calls the backend only after a
\* lookup for the same request, and not for a request the backend has
\* answered with 200 less than a TTL ago.
C28_BackendBehindCache ==
    [][(/\ ret'.op = "process"
        /\ client.cache_enabled
        /\ cloud_call'.backend # "none")
       => /\ cloud_call'.looked_up
          /\ ~(/\ ret'.key \in DOMAIN fetched
               /\ now <= fetched[ret'.key] + ttl)]_vars

-----------------------------------------------------------------------------
(* Claims about the extractors, checked under SpecExtract *)

\* The fenced blocks of a text, in source order
BlocksOf(parts) == SelectSeq(parts, LAMBDA p : p.kind = "block")

\* What the extraction is to give: one pair per fenced block, in source
\* order, the tag lowercased and the body as written; for a text without a
\* fenced block, one pair with the empty language and the whole text
ExpectedPairs(parts) ==
    LET blocks == BlocksOf(parts)
    IN  IF blocks = <<>>
        THEN <<[language |-> <<>>, code |-> Render(parts)]>>
        ELSE [i \in 1..Len(blocks) |->
                 [language |-> Lower(blocks[i].tag), code |-> blocks[i].body]]

\* C29: extracting from a text with k fenced blocks returns exactly k
\* (language, code) pairs in source order, each language tag lowercased and
\* each code body verbatim; from a text with no fenced block it returns one
\* pair with the empty language and the whole text as code.
C29_ExtractsPairs ==
    ex.op = "parse_code_blocks" => ex.result = ExpectedPairs(ex.parts)

-----------------------------------------------------------------------------
(* Further claims about the cache, checked under Spec *)

\* C31: a Set for a key already present never evicts any entry, even when
\* the cache is at capacity: it completes, replaces the response, resets
\* expires_at to now + ttl, moves the key to the most recently used position,
\* counts one insertion, and leaves every other entry and the relative
\* recency order of the other keys unchanged.
C31_OverwriteEvictsNothing ==
    [][(/\ ret'.op = "set"
        /\ ret'.key \in DOMAIN cache)
       => /\ ret'.result = None
          /\ DOMAIN cache' = DOMAIN cache
          /\ stats'.evictions = stats.evictions
          /\ cache'[ret'.key].response = lastSet'[ret'.key].response
          /\ cache'[ret'.key].expires_at = now + ttl
          /\ access_order' # <<>> /\ Last(access_order') = ret'.key
          /\ stats'.insertions = stats.insertions + 1
          /\ \A k \in (DOMAIN cache) \ {ret'.key} : cache'[k] = cache[k]
          /\ ListRemove(access_order', ret'.key)
                 = ListRemove(access_order, ret'.key)]_vars

\* C31's case: max_size = 2, two keys were set and the older of them was set
\* again while the cache was full
C31_Witness ==
    /\ max_size = 2 /\ nops = 3 /\ stats.insertions = 3 /\ stats.evictions = 0
    /\ ret.op = "set" /\ ret.key = KeyA /\ ret.result = None
    /\ DOMAIN cache = {KeyA, KeyB} /\ access_order = <<KeyB, KeyA>>

\* C32: after any sequence of Get and Set operations, also on a cache that
\* loaded its own file at construction, the recency list contains exactly the
\* keys of the entry map, each exactly once.
C32_RecencyListIsTheKeys ==
    /\ \A k \in DOMAIN cache :
           Cardinality({i \in 1..Len(access_order) : access_order[i] = k}) = 1
    /\ \A i \in 1..Len(access_order) : access_order[i] \in DOMAIN cache

\* C32's case: a hit and an eviction have reordered and shortened the list
C32_Witness ==
    /\ stats.hits >= 1 /\ stats.evictions >= 1
    /\ DOMAIN cache = {KeyA, KeyC} /\ access_order = <<KeyA, KeyC>>

\* C35: Set completes without raising in every reachable cache state and for
\* every configured max_size >= 0, max_size = 0 and an empty cache included.
C35_SetNeverRaises ==
    ret.op = "set" => ret.result = None

\* C39: on a fresh cache the counters count the calls: hits + misses grows by
\* one with every Get and insertions by one with every Set, nothing else
\* moves them, and evictions <= insertions, so that the derived hit rate and
\* eviction rate are between 0 and 1.
C39_CountersCountCalls ==
    /\ stats = ZeroStats
    /\ [][/\ ret'.op = "get"
               => /\ stats'.hits + stats'.misses = stats.hits + stats.misses + 1
                  /\ stats'.insertions = stats.insertions
                  /\ stats'.evictions = stats.evictions
          /\ ret'.op = "set"
               => /\ stats'.insertions = stats.insertions + 1
                  /\ stats'.hits = stats.hits /\ stats'.misses = stats.misses
          /\ ret'.op = "tick" => stats' = stats
          /\ stats'.evictions <= stats'.insertions]_vars

-----------------------------------------------------------------------------
(* Further claims about main.py, checked under SpecMain *)

\* C33: hybrid_workflow runs the orchestrator's create_workflow at most once
\* per call on every path, also when the cloud call fails and the local
\* workflow then fails too.
C33_LocalRunsAtMostOnce ==
    hy.pc = "returned" => Len(hy.call.locals) <= 1

\* The task data and the task type for which hybrid_workflow has a cloud call
CloudEligible ==
    /\ hy.use_cloud
    /\ hy.complexity = "high" \/ hy.parallel_execution
    /\ hy.task_type \in CloudTaskTypes

\* C37: hybrid_workflow contacts the cloud backend only when use_cloud is true
\* and either complexity is high or parallel_execution is set, and only for
\* the task types code_generation and code_optimization; in every other case
\* the result comes from the local orchestrator alone.
C37_CloudOnlyWhenEligible ==
    hy.pc = "returned"
        => /\ hy.call.cloud_called => CloudEligible
           /\ ~CloudEligible
                 => /\ ~hy.call.cloud_called
                    /\ hy.call.locals # <<>>
                    /\ "alternative" \notin hy.call.ret.keys
                    /\ ~LastLocal.raised
                          => /\ hy.call.ret.source = "local"
                             /\ hy.call.ret.result = LastLocal.result
                    /\ LastLocal.raised
                          => /\ hy.call.ret.source = "except"
                             /\ hy.call.ret.error = LastLocal.error

\* C37's case: a call of the parallel strategy, its complexity not high, that
\* awaited the cloud
C37_Witness ==
    /\ hy.pc = "returned"
    /\ hy.call.strategy = "parallel" /\ hy.call.cloud_called
    /\ hy.complexity # "high" /\ hy.parallel_execution /\ hy.use_cloud

\* The cloud result of the call is the better one: no error, and a confidence
\* strictly above the local result's, a missing confidence counting as 0
CloudIsBetter ==
    /\ "error" \notin hy.call.cloud.result.keys
    /\ ConfidenceOf(hy.call.cloud.result) > ConfidenceOf(LastLocal.result)

\* C38: in the parallel strategy, with a cloud result and a local result at
\* hand, hybrid_workflow returns the cloud result if and only if the cloud
\* result has no error and its confidence is strictly greater than the local
\* result's; otherwise it returns the local result, and a cloud result that
\* carries an error is never attached as the alternative.
C38_ParallelPicksTheBetter ==
    (/\ hy.pc = "returned"
     /\ hy.call.strategy = "parallel"
     /\ hy.call.cloud_called
     /\ ~hy.call.cloud.raised)
        => /\ Len(hy.call.locals) = 1 /\ ~LastLocal.raised
           /\ hy.call.ret.source = "cloud" <=> CloudIsBetter
           /\ CloudIsBetter => hy.call.ret.result = hy.call.cloud.result
           /\ ~CloudIsBetter
                 => /\ hy.call.ret.source = "local"
                    /\ hy.call.ret.result = LastLocal.result
           /\ "error" \in hy.call.cloud.result.keys
                 => "alternative" \notin hy.call.ret.keys

\* C38's case: the two confidences are equal and the local result is returned
C38_Witness ==
    /\ hy.pc = "returned"
    /\ hy.call.strategy = "parallel"
    /\ hy.call.cloud_called
    /\ "error" \notin hy.call.cloud.result.keys
    /\ ConfidenceOf(hy.call.cloud.result) = ConfidenceOf(LastLocal.result)
    /\ ConfidenceOf(LastLocal.result) > 0
    /\ hy.call.ret.source = "local"
    /\ "alternative" \in hy.call.ret.keys

-----------------------------------------------------------------------------
(* Claims about the opening prompts, checked under SpecPrompt *)

\* C34: the opening prompt the facilitator sends does not itself satisfy the
\* termination predicate, so a round never terminates by predicate before a
\* participant other than the facilitator has produced a message.
C34_OpeningDoesNotTerminate ==
    opening.workflow # None => ~opening.terminates

-----------------------------------------------------------------------------
(* Further claims about the client, checked under SpecClient *)

\* C36: when authentication with the cloud backend fails in non-mock mode,
\* the cloud call reports a failure (a result with 'error', on which
\* hybrid_workflow falls back to the local orchestrator); the canned mock
\* response is never returned to the caller as a successful cloud result.
C36_AuthFailureIsReported ==
    (ret.op = "process" /\ ~client.use_mock /\ cloud_call.auth = "failed")
        => cloud_call.returned = "error"

====
